---- MODULE Spec2Model ----
(***************************************************************************)
(* The catalog store of magazzino (src/inventory_manager.py): the SQLite   *)
(* table `products` and the functions that write and read it; and the      *)
(* terminal table over it (src/inventory_tui.py).  Spec is the store under *)
(* its writing calls, SpecQuery the read calls on a catalog, SpecTUI the    *)
(* event loop of the terminal table.                                       *)
(*                                                                         *)
(* Text is a sequence of one-character strings, so that str.strip() is a   *)
(* computation on the characters.  A price is a number of currency units   *)
(* (the code compares it with 0 only); quantities and prices are small     *)
(* integers, far from the limits of SQLite's INTEGER and REAL.  An         *)
(* Optional argument of update_product is None or Some(v).                 *)
(***************************************************************************)
EXTENDS Integers, Sequences, FiniteSets, TLC

VARIABLES
    products,         \* the rows of table products, in rowid order
    sqlite_sequence,  \* AUTOINCREMENT: the largest rowid the table ever held
    last,             \* the call just made: its arguments, its outcome, the rows before it
    issued,           \* history: the ids the successful add_product calls assigned, in order
    tui               \* the InventoryTUI object: its fields, and the height of its screen

vars == <<products, sqlite_sequence, last, issued, tui>>

(***************************************************************************)
(* Bounds of the model.                                                    *)
(***************************************************************************)
\* ids are 1..MaxId: an add_product call that would assign a larger id is not made
MaxId == 2
\* an update_product call of the model carries at most this many arguments
MaxPatchFields == 2

(***************************************************************************)
(* Text and the inputs the calls are drawn from.                           *)
(***************************************************************************)
IsSpace(c) == c = " "

RECURSIVE LStrip(_)
LStrip(s) == IF s = <<>> THEN s
             ELSE IF IsSpace(Head(s)) THEN LStrip(Tail(s)) ELSE s

RECURSIVE RStrip(_)
RStrip(s) == IF s = <<>> THEN s
             ELSE IF IsSpace(s[Len(s)]) THEN RStrip(SubSeq(s, 1, Len(s) - 1)) ELSE s

\* str.strip()
strip(s) == RStrip(LStrip(s))

\* the arguments the calls of the model are drawn from
Codes == {<<>>, <<"a", " ">>}
Names == {<<"n">>, <<" ">>}
Descriptions == {<<"d">>, <<" ", "d", " ">>}
Categories == {<<"c">>}
Locations == {<<"l">>}
Quantities == {-1, 0, 2}
Prices == {-1, 0, 3}
Ids == 1..MaxId

None == [present |-> FALSE]
Some(v) == [present |-> TRUE, value |-> v]
Optional(S) == {None} \cup {Some(v) : v \in S}

AddArgs == [code : Codes, name : Names, description : Descriptions,
            category : Categories, quantity : Quantities, price : Prices,
            location : Locations]

PatchFields == {"name", "description", "category", "quantity", "price", "location"}

Present(patch) == {f \in PatchFields : patch[f].present}

Patches == {p \in [name : Optional(Names), description : Optional(Descriptions),
                   category : Optional(Categories), quantity : Optional(Quantities),
                   price : Optional(Prices), location : Optional(Locations)] :
                Cardinality(Present(p)) <= MaxPatchFields}

(***************************************************************************)
(* The table: CREATE TABLE products (initialize_database).                 *)
(***************************************************************************)
Max(a, b) == IF a >= b THEN a ELSE b

Rowids(ps) == {ps[i].id : i \in 1..Len(ps)}

RECURSIVE MaxRowid(_)
MaxRowid(ps) == IF ps = <<>> THEN 0 ELSE Max(ps[Len(ps)].id, MaxRowid(SubSeq(ps, 1, Len(ps) - 1)))

\* the rowid of a table declared without AUTOINCREMENT: one more than the largest
\* rowid now in the table
rowid_reusing(ps, seq) == MaxRowid(ps) + 1

\* id INTEGER PRIMARY KEY AUTOINCREMENT: the rowid of the next inserted row is one
\* more than the largest rowid the table has ever held (kept in sqlite_sequence)
autoincrement(ps, seq) == Max(seq, MaxRowid(ps)) + 1

\* a code column declared without UNIQUE
unique_code_unchecked(ps, code) == TRUE

\* code TEXT UNIQUE: whether a row with this code may be inserted
unique_code(ps, code) == \A i \in 1..Len(ps) : ps[i].code # code

(***************************************************************************)
(* The validators; each gives the error it raises, or "none".              *)
(***************************************************************************)
\* a validator that lets -1 through
_validate_quantity_off_by_one(quantity) == IF quantity < -1 THEN "InvalidQuantity" ELSE "none"

_validate_quantity(quantity) == IF quantity < 0 THEN "InvalidQuantity" ELSE "none"

_validate_price(price) == IF price < 0 THEN "InvalidPrice" ELSE "none"

(***************************************************************************)
(* add_product                                                             *)
(***************************************************************************)
\* an INSERT that binds the arguments as they were given
insert_values_untrimmed(id, a) ==
    [id |-> id, code |-> a.code, name |-> a.name,
     description |-> a.description, category |-> a.category,
     quantity |-> a.quantity, price |-> a.price, location |-> a.location]

\* the row the INSERT statement writes
insert_values(id, a) ==
    [id |-> id, code |-> a.code, name |-> strip(a.name),
     description |-> strip(a.description), category |-> strip(a.category),
     quantity |-> a.quantity, price |-> a.price, location |-> strip(a.location)]

\* an add_product whose statement is INSERT OR REPLACE: the row that has the code
\* gives way to the new one
add_product_replacing(ps, seq, a) ==
    IF _validate_quantity(a.quantity) # "none"
    THEN [raised |-> _validate_quantity(a.quantity), rowid |-> 0, products |-> ps, seq |-> seq]
    ELSE IF _validate_price(a.price) # "none"
    THEN [raised |-> _validate_price(a.price), rowid |-> 0, products |-> ps, seq |-> seq]
    ELSE [raised |-> "none", rowid |-> autoincrement(ps, seq),
          products |-> Append(SelectSeq(ps, LAMBDA r : r.code # a.code),
                              insert_values(autoincrement(ps, seq), a)),
          seq |-> autoincrement(ps, seq)]

\* the outcome of add_product(a) on rows ps: the error raised, the rowid assigned
\* (0 when none is), the rows and the sequence afterwards
add_product(ps, seq, a) ==
    IF _validate_quantity(a.quantity) # "none"
    THEN [raised |-> _validate_quantity(a.quantity), rowid |-> 0, products |-> ps, seq |-> seq]
    ELSE IF _validate_price(a.price) # "none"
    THEN [raised |-> _validate_price(a.price), rowid |-> 0, products |-> ps, seq |-> seq]
    ELSE IF ~unique_code(ps, a.code)
    THEN [raised |-> "DuplicateCode", rowid |-> 0, products |-> ps, seq |-> seq]
    ELSE [raised |-> "none", rowid |-> autoincrement(ps, seq),
          products |-> Append(ps, insert_values(autoincrement(ps, seq), a)),
          seq |-> autoincrement(ps, seq)]

(***************************************************************************)
(* update_product                                                          *)
(***************************************************************************)
\* the value a present argument is bound to in the SET clause
param(f, v) == IF f \in {"quantity", "price"} THEN v ELSE strip(v)

\* the SET clause: the columns of the arguments that are not None, each with the
\* value bound to it
updates(patch) == [f \in Present(patch) |-> param(f, patch[f].value)]

\* a clause builder that does not reject the empty clause
update_raises_empty_accepted(patch) ==
    IF patch.quantity.present /\ _validate_quantity(patch.quantity.value) # "none"
    THEN _validate_quantity(patch.quantity.value)
    ELSE IF patch.price.present /\ _validate_price(patch.price.value) # "none"
    THEN _validate_price(patch.price.value)
    ELSE "none"

\* the error raised while the clause is built, or "none"
update_raises(patch) ==
    IF patch.quantity.present /\ _validate_quantity(patch.quantity.value) # "none"
    THEN _validate_quantity(patch.quantity.value)
    ELSE IF patch.price.present /\ _validate_price(patch.price.value) # "none"
    THEN _validate_price(patch.price.value)
    ELSE IF DOMAIN updates(patch) = {}
    THEN "NoFieldsProvided"
    ELSE "none"

\* a statement with no WHERE clause
where_every_row(row, product_id) == TRUE

\* WHERE id = ?
where_id(row, product_id) == row.id = product_id

\* an UPDATE that overwrites the columns left out of the clause with NULLs (here
\* the empty text and 0) in place of keeping them
update_row_overwriting(row, set, product_id) ==
    IF where_id(row, product_id)
    THEN [c \in DOMAIN row |->
            IF c \in DOMAIN set THEN set[c]
            ELSE IF c \in {"id", "code"} THEN row[c]
            ELSE IF c \in {"quantity", "price"} THEN 0 ELSE <<>>]
    ELSE row

\* UPDATE products SET ... WHERE id = ?, on one row
update_row(row, set, product_id) ==
    IF where_id(row, product_id)
    THEN [c \in DOMAIN row |-> IF c \in DOMAIN set THEN set[c] ELSE row[c]]
    ELSE row

\* cur.rowcount: the rows the statement matched
rowcount(ps, product_id) == Cardinality({i \in 1..Len(ps) : where_id(ps[i], product_id)})

\* an update_product that writes each text column as it meets it, before the
\* numbers are validated
update_product_partial(ps, product_id, patch) ==
    LET early == [f \in Present(patch) \cap {"name", "description", "category"} |->
                     param(f, patch[f].value)]
    IN  IF update_raises(patch) \in {"InvalidQuantity", "InvalidPrice"}
        THEN [raised |-> update_raises(patch), returned |-> "None",
              products |-> [i \in 1..Len(ps) |-> update_row(ps[i], early, product_id)]]
        ELSE IF update_raises(patch) # "none"
        THEN [raised |-> update_raises(patch), returned |-> "None", products |-> ps]
        ELSE [raised |-> "none",
              returned |-> IF rowcount(ps, product_id) > 0 THEN "True" ELSE "False",
              products |-> [i \in 1..Len(ps) |->
                               update_row(ps[i], updates(patch), product_id)]]

\* the outcome of update_product(product_id, **patch) on rows ps
update_product(ps, product_id, patch) ==
    IF update_raises(patch) # "none"
    THEN [raised |-> update_raises(patch), returned |-> "None", products |-> ps]
    ELSE [raised |-> "none",
          returned |-> IF rowcount(ps, product_id) > 0 THEN "True" ELSE "False",
          products |-> [i \in 1..Len(ps) |-> update_row(ps[i], updates(patch), product_id)]]

(***************************************************************************)
(* delete_product                                                          *)
(***************************************************************************)
\* a DELETE with no WHERE clause
delete_every_row(ps, product_id) == <<>>

\* DELETE FROM products WHERE id = ?
RECURSIVE delete_where(_, _)
delete_where(ps, product_id) ==
    IF ps = <<>> THEN <<>>
    ELSE IF where_id(Head(ps), product_id) THEN delete_where(Tail(ps), product_id)
    ELSE <<Head(ps)>> \o delete_where(Tail(ps), product_id)

delete_product(ps, product_id) ==
    [raised |-> "none",
     returned |-> IF rowcount(ps, product_id) > 0 THEN "True" ELSE "False",
     products |-> delete_where(ps, product_id)]

\* get_all_products() with no order_by: the rows in the table's own (rowid) order
get_all_products(ps) == ps

(***************************************************************************)
(* calculate_total_value                                                   *)
(***************************************************************************)
\* SUM(price) in place of SUM(quantity * price)
RECURSIVE sum_price(_)
sum_price(ps) ==
    IF ps = <<>> THEN None
    ELSE LET rest == sum_price(Tail(ps))
         IN  Some(Head(ps).price + (IF rest.present THEN rest.value ELSE 0))

\* SUM(quantity * price) over the rows: NULL (None) when there is no row
RECURSIVE sum_quantity_price(_)
sum_quantity_price(ps) ==
    IF ps = <<>> THEN None
    ELSE LET rest == sum_quantity_price(Tail(ps))
         IN  Some(Head(ps).quantity * Head(ps).price
                  + (IF rest.present THEN rest.value ELSE 0))

\* COALESCE(x, 0)
COALESCE(x, default) == IF x.present THEN x.value ELSE default

\* SELECT COALESCE(SUM(quantity * price), 0) FROM products
calculate_total_value(ps) == COALESCE(sum_quantity_price(ps), 0)

(***************************************************************************)
(* Text in the queries: letter case and the order of the characters.       *)
(***************************************************************************)
\* the capital letters of the model's alphabet, each with its small letter
ascii_lowercase ==
    ("A" :> "a") @@ ("B" :> "b") @@ ("C" :> "c") @@ ("D" :> "d") @@ ("E" :> "e")
    @@ ("I" :> "i") @@ ("L" :> "l") @@ ("O" :> "o") @@ ("P" :> "p") @@ ("R" :> "r")
    @@ ("S" :> "s")

char_lower(c) == IF c \in DOMAIN ascii_lowercase THEN ascii_lowercase[c] ELSE c

\* str.lower()
str_lower(s) == [i \in 1..Len(s) |-> char_lower(s[i])]

\* the code points of the characters of the model's alphabet
ord ==
    (" " :> 32) @@ ("%" :> 37) @@ ("A" :> 65) @@ ("B" :> 66) @@ ("C" :> 67)
    @@ ("D" :> 68) @@ ("E" :> 69) @@ ("I" :> 73) @@ ("L" :> 76) @@ ("O" :> 79)
    @@ ("P" :> 80) @@ ("R" :> 82) @@ ("S" :> 83)
    @@ ("_" :> 95) @@ ("a" :> 97) @@ ("b" :> 98) @@ ("c" :> 99) @@ ("d" :> 100)
    @@ ("e" :> 101) @@ ("g" :> 103) @@ ("i" :> 105) @@ ("l" :> 108)
    @@ ("m" :> 109) @@ ("n" :> 110) @@ ("o" :> 111) @@ ("p" :> 112)
    @@ ("q" :> 113) @@ ("r" :> 114) @@ ("s" :> 115) @@ ("t" :> 116)
    @@ ("u" :> 117) @@ ("x" :> 120) @@ ("y" :> 121)

\* s < t in the BINARY collation of a TEXT column: the first differing character
\* decides, and a proper prefix comes first
RECURSIVE text_less(_, _)
text_less(s, t) ==
    IF t = <<>> THEN FALSE
    ELSE IF s = <<>> THEN TRUE
    ELSE IF Head(s) = Head(t) THEN text_less(Tail(s), Tail(t))
    ELSE ord[Head(s)] < ord[Head(t)]

\* text LIKE pattern: % stands for any run of characters, _ for any one character,
\* every other character for itself in either letter case
RECURSIVE like(_, _)
like(pattern, text) ==
    IF pattern = <<>> THEN text = <<>>
    ELSE IF Head(pattern) = "%"
    THEN like(Tail(pattern), text) \/ (text # <<>> /\ like(pattern, Tail(text)))
    ELSE IF text = <<>> THEN FALSE
    ELSE /\ Head(pattern) = "_" \/ char_lower(Head(pattern)) = char_lower(Head(text))
         /\ like(Tail(pattern), Tail(text))

(***************************************************************************)
(* _build_order_clause and ORDER BY                                        *)
(***************************************************************************)
ORDERABLE_COLUMNS ==
    {<<"i", "d">>, <<"c", "o", "d", "e">>, <<"n", "a", "m", "e">>,
     <<"q", "u", "a", "n", "t", "i", "t", "y">>, <<"p", "r", "i", "c", "e">>,
     <<"c", "a", "t", "e", "g", "o", "r", "y">>,
     <<"l", "o", "c", "a", "t", "i", "o", "n">>}

\* a clause that is ASC whatever was asked
direction_ascending(descending) == "ASC"

direction(descending) == IF descending THEN "DESC" ELSE "ASC"

\* a clause builder that takes the field name in the letter case it was given in
_build_order_clause_exact(order_by, descending) ==
    IF ~order_by.present \/ order_by.value = <<>>
    THEN [raised |-> "none", clause |-> None]
    ELSE IF order_by.value \notin ORDERABLE_COLUMNS
    THEN [raised |-> "InvalidSortField", clause |-> None]
    ELSE [raised |-> "none",
          clause |-> Some([column |-> order_by.value, direction |-> direction(descending)])]

\* the ORDER BY clause of a query: the error raised, or the column and direction to
\* order by (None when the query has no ORDER BY)
_build_order_clause(order_by, descending) ==
    IF ~order_by.present \/ order_by.value = <<>>
    THEN [raised |-> "none", clause |-> None]
    ELSE IF str_lower(order_by.value) \notin ORDERABLE_COLUMNS
    THEN [raised |-> "InvalidSortField", clause |-> None]
    ELSE [raised |-> "none",
          clause |-> Some([column |-> str_lower(order_by.value),
                           direction |-> direction(descending)])]

\* the value of a row in the column of this name
column_value(row, column) ==
    CASE column = <<"i", "d">> -> row.id
      [] column = <<"c", "o", "d", "e">> -> row.code
      [] column = <<"n", "a", "m", "e">> -> row.name
      [] column = <<"q", "u", "a", "n", "t", "i", "t", "y">> -> row.quantity
      [] column = <<"p", "r", "i", "c", "e">> -> row.price
      [] column = <<"c", "a", "t", "e", "g", "o", "r", "y">> -> row.category
      [] column = <<"l", "o", "c", "a", "t", "i", "o", "n">> -> row.location

NumericColumns ==
    {<<"i", "d">>, <<"q", "u", "a", "n", "t", "i", "t", "y">>, <<"p", "r", "i", "c", "e">>}

\* whether r sorts strictly before q under the clause
sorts_before(r, q, clause) ==
    LET less(x, y) == IF clause.column \in NumericColumns
                      THEN column_value(x, clause.column) < column_value(y, clause.column)
                      ELSE text_less(column_value(x, clause.column),
                                     column_value(y, clause.column))
    IN  IF clause.direction = "DESC" THEN less(q, r) ELSE less(r, q)

\* r put into the sorted rows, behind the rows it does not sort strictly before
RECURSIVE sorter_insert(_, _, _)
sorter_insert(sorted, r, clause) ==
    IF sorted = <<>> THEN <<r>>
    ELSE IF sorts_before(r, Head(sorted), clause) THEN <<r>> \o sorted
    ELSE <<Head(sorted)>> \o sorter_insert(Tail(sorted), r, clause)

\* ORDER BY column direction: SQLite's sorter takes the rows in scan (rowid) order
\* and rows with equal keys come out in the order they went in, in either direction
RECURSIVE sorter(_, _)
sorter(ps, clause) ==
    IF ps = <<>> THEN <<>>
    ELSE sorter_insert(sorter(SubSeq(ps, 1, Len(ps) - 1), clause), ps[Len(ps)], clause)

\* the rows a SELECT gives: the rows its WHERE clause keeps, ordered by the clause;
\* nothing is selected when building the clause raised
select(kept, order) ==
    IF order.raised # "none" THEN [raised |-> order.raised, returned |-> <<>>]
    ELSE [raised |-> "none",
          returned |-> IF order.clause.present
                       THEN sorter(kept, order.clause.value)
                       ELSE kept]

(***************************************************************************)
(* The read functions.                                                     *)
(***************************************************************************)
\* get_all_products(order_by, descending)
get_all_products_ordered(ps, order_by, descending) ==
    select(ps, _build_order_clause(order_by, descending))

\* "%" + term.strip() + "%"
wildcard_term(term) == <<"%">> \o strip(term) \o <<"%">>

\* WHERE code LIKE ? OR name LIKE ?
search_where(row, pattern) == like(pattern, row.code) \/ like(pattern, row.name)

search_products(ps, term, order_by, descending) ==
    select(SelectSeq(ps, LAMBDA r : search_where(r, wildcard_term(term))),
           _build_order_clause(order_by, descending))

\* WHERE category LIKE ?: a match in either letter case
category_where_like(row, category) == like(category, row.category)

\* WHERE category = ?
category_where(row, category) == row.category = category

filter_by_category(ps, category, order_by, descending) ==
    select(SelectSeq(ps, LAMBDA r : category_where(r, strip(category))),
           _build_order_clause(order_by, descending))

\* WHERE location = ?
location_where(row, location) == row.location = location

filter_by_location(ps, location, order_by, descending) ==
    select(SelectSeq(ps, LAMBDA r : location_where(r, strip(location))),
           _build_order_clause(order_by, descending))

\* WHERE quantity < ?
low_stock_where_strict(row, threshold) == row.quantity < threshold

\* WHERE quantity <= ?
low_stock_where(row, threshold) == row.quantity <= threshold

get_low_stock_items(ps, threshold) ==
    IF threshold < 0 THEN [raised |-> "InvalidThreshold", returned |-> <<>>]
    ELSE [raised |-> "none",
          returned |-> SelectSeq(ps, LAMBDA r : low_stock_where(r, threshold))]

(***************************************************************************)
(* The terminal table (src/inventory_tui.py): class InventoryTUI.  An      *)
(* object is a record of its fields, with the height of its screen         *)
(* (stdscr.getmaxyx()[0]); a method is the object after the call.  A       *)
(* status message is its fixed text, whether it carries the [ERRORE]       *)
(* prefix, and the error it quotes.  The e(x)port and (q)uit keys are left *)
(* out.                                                                    *)
(***************************************************************************)
Min(a, b) == IF a <= b THEN a ELSE b

\* the screen lines that are not table rows: title, header, separator, status line
ReservedRows == 4

\* the screen line of the first table row
table_start == 3

\* the terminal heights of the model
Heights == {4, 5, 6}

\* a data_loader: the read function the lambda calls and the argument it closed over
Loader(kind, text, threshold) == [kind |-> kind, text |-> text, threshold |-> threshold]

\* InventoryTUI(stdscr), on a screen of this height
InventoryTUI(height) ==
    [rows |-> <<>>, selected_index |-> 0, top_row |-> 0,
     status_message |-> [message |-> "Premi 'h' per la guida rapida.", error |-> FALSE,
                         exc |-> "none"],
     order_by |-> None, descending |-> FALSE,
     data_loader |-> Loader("get_all_products", <<>>, 0),
     height |-> height]

table_height(self) == Max(0, self.height - ReservedRows)

\* a set_status that never puts the [ERRORE] prefix
set_status_unflagged(self, message, error, exc) ==
    [self EXCEPT !.status_message = [message |-> message, error |-> FALSE, exc |-> exc]]

set_status(self, message, error, exc) ==
    [self EXCEPT !.status_message = [message |-> message, error |-> error, exc |-> exc]]

\* the selection is set and the viewport moved up or down to hold it
scroll_to(self, selected) ==
    LET top == IF selected < self.top_row THEN selected ELSE self.top_row
    IN  [self EXCEPT !.selected_index = selected,
                     !.top_row = IF selected >= top + table_height(self)
                                 THEN selected - table_height(self) + 1
                                 ELSE top]

_clamp_selection(self) ==
    IF self.rows = <<>> THEN [self EXCEPT !.selected_index = 0, !.top_row = 0]
    ELSE scroll_to(self, Max(0, Min(self.selected_index, Len(self.rows) - 1)))

\* self.data_loader(): the read call of the lambda, with the order_by and descending
\* the object has now; the loader of get_low_stock_items passes neither
data_loader(self, ps) ==
    CASE self.data_loader.kind = "get_all_products" ->
             get_all_products_ordered(ps, self.order_by, self.descending)
      [] self.data_loader.kind = "search_products" ->
             search_products(ps, self.data_loader.text, self.order_by, self.descending)
      [] self.data_loader.kind = "filter_by_category" ->
             filter_by_category(ps, self.data_loader.text, self.order_by, self.descending)
      [] self.data_loader.kind = "filter_by_location" ->
             filter_by_location(ps, self.data_loader.text, self.order_by, self.descending)
      [] self.data_loader.kind = "get_low_stock_items" ->
             get_low_stock_items(ps, self.data_loader.threshold)

refresh_data(self, ps) ==
    LET r == data_loader(self, ps)
    IN  IF r.raised # "none"
        THEN set_status([self EXCEPT !.rows = <<>>], "Errore nel caricamento dei dati",
                        TRUE, r.raised)
        ELSE _clamp_selection([self EXCEPT !.rows = r.returned])

\* a _move_selection that does not hold the index between the first and last row
_move_selection_unbounded(self, delta) ==
    IF self.rows = <<>> THEN self
    ELSE scroll_to(self, self.selected_index + delta)

_move_selection(self, delta) ==
    IF self.rows = <<>> THEN self
    ELSE scroll_to(self, Max(0, Min(self.selected_index + delta, Len(self.rows) - 1)))

\* a _select_row_at that takes a line under the visible rows as a row too
_select_row_at_unbounded(self, y) ==
    IF y < table_start
    THEN [self |-> self, returned |-> FALSE]
    ELSE IF self.rows = <<>> \/ self.top_row + (y - table_start) >= Len(self.rows)
    THEN [self |-> self, returned |-> FALSE]
    ELSE [self |-> _clamp_selection([self EXCEPT !.selected_index =
                                                     self.top_row + (y - table_start)]),
          returned |-> TRUE]

\* _select_row_at(y): the object afterwards, and the value returned
_select_row_at(self, y) ==
    IF y < table_start \/ y - table_start >= table_height(self)
    THEN [self |-> self, returned |-> FALSE]
    ELSE IF self.rows = <<>> \/ self.top_row + (y - table_start) >= Len(self.rows)
    THEN [self |-> self, returned |-> FALSE]
    ELSE [self |-> _clamp_selection([self EXCEPT !.selected_index =
                                                     self.top_row + (y - table_start)]),
          returned |-> TRUE]

\* a _current_row that gives the first row whatever the selection
_current_row_first(self) ==
    IF self.rows = <<>> \/ self.selected_index >= Len(self.rows) THEN None
    ELSE Some(self.rows[1])

\* rows are numbered from 0 in the object and from 1 in a sequence
_current_row(self) ==
    IF self.rows = <<>> \/ self.selected_index >= Len(self.rows) THEN None
    ELSE Some(self.rows[self.selected_index + 1])

\* a _show_details that does not look whether there is a row to show
_show_details_unchecked(self) ==
    set_status(self, "ID: ... | Valore totale: ...", FALSE, "none")

_show_details(self) ==
    IF ~_current_row(self).present
    THEN set_status(self, "Nessun prodotto selezionato.", TRUE, "none")
    ELSE set_status(self, "ID: ... | Valore totale: ...", FALSE, "none")

\* _prompt_input: the line typed, stripped
_prompt_input(typed) == strip(typed)

\* the object when a prompt is over, on a screen of this height: a resize while
\* getstr() waits ends the prompt with what was typed so far and is taken there, so
\* that run() sees no KEY_RESIZE and nothing is clamped
prompted(self, height) == [self EXCEPT !.height = height]

\* _handle_key, for the keys that open no prompt
_handle_key(self, ps, key) ==
    CASE key = "KEY_DOWN" -> _move_selection(self, 1)
      [] key = "KEY_UP" -> _move_selection(self, -1)
      [] key = "KEY_NPAGE" -> _move_selection(self, table_height(self))
      [] key = "KEY_PPAGE" -> _move_selection(self, -table_height(self))
      [] key = "KEY_HOME" -> [self EXCEPT !.selected_index = 0, !.top_row = 0]
      [] key = "KEY_END" ->
             _clamp_selection([self EXCEPT !.selected_index = Max(0, Len(self.rows) - 1)])
      [] key = "r" -> set_status(refresh_data(self, ps), "Dati aggiornati.", FALSE, "none")
      [] key = "O" ->
             set_status(refresh_data([self EXCEPT !.descending = ~self.descending], ps),
                        "Ordinamento aggiornato.", FALSE, "none")
      [] key = "t" -> set_status(self, "Valore totale inventario: ...", FALSE, "none")
      [] key = "KEY_ENTER" -> _show_details(self)
      [] key = "h" ->
             set_status(self, "Naviga con le frecce, usa i comandi in basso ...",
                        FALSE, "none")
      [] OTHER -> self

_handle_mouse(self, state, y) ==
    CASE state = "BUTTON1_CLICKED" -> _select_row_at(self, y).self
      [] state = "BUTTON1_DOUBLE_CLICKED" ->
             IF _select_row_at(self, y).returned
             THEN _show_details(_select_row_at(self, y).self)
             ELSE self
      [] state = "BUTTON4_PRESSED" -> _move_selection(self, -1)
      [] state = "BUTTON5_PRESSED" -> _move_selection(self, 1)

\* a _search_dialog that goes back to the default order
_search_dialog_unordered(self, ps, typed) ==
    IF _prompt_input(typed) = <<>> THEN self
    ELSE set_status(refresh_data([self EXCEPT !.data_loader =
                                      Loader("search_products", _prompt_input(typed), 0),
                                  !.order_by = None],
                                 ps),
                    "Ricerca applicata.", FALSE, "none")

_search_dialog(self, ps, typed) ==
    IF _prompt_input(typed) = <<>> THEN self
    ELSE set_status(refresh_data([self EXCEPT !.data_loader =
                                      Loader("search_products", _prompt_input(typed), 0)],
                                 ps),
                    "Ricerca applicata.", FALSE, "none")

\* the loader _filter_dialog leaves: the prompts give the choice, the category or
\* location, and the threshold (_prompt_int returns once a number was typed)
filter_loader(self, choice, typed, threshold) ==
    CASE choice = <<"1">> ->
             IF _prompt_input(typed) # <<>>
             THEN Loader("filter_by_category", _prompt_input(typed), 0)
             ELSE self.data_loader
      [] choice = <<"2">> ->
             IF _prompt_input(typed) # <<>>
             THEN Loader("filter_by_location", _prompt_input(typed), 0)
             ELSE self.data_loader
      [] choice = <<"3">> -> Loader("get_low_stock_items", <<>>, threshold)
      [] choice = <<"0">> -> Loader("get_all_products", <<>>, 0)
      [] OTHER -> self.data_loader

_filter_dialog(self, ps, choice_typed, typed, threshold) ==
    IF _prompt_input(choice_typed) \notin {<<"1">>, <<"2">>, <<"3">>, <<"0">>}
    THEN set_status(self, "Scelta filtro non valida.", TRUE, "none")
    ELSE set_status(refresh_data([self EXCEPT !.data_loader =
                                      filter_loader(self, _prompt_input(choice_typed),
                                                    typed, threshold)],
                                 ps),
                    "Filtro aggiornato.", FALSE, "none")

_ordering_dialog(self, ps, typed) ==
    IF _prompt_input(typed) # <<>> /\ _prompt_input(typed) \notin ORDERABLE_COLUMNS
    THEN set_status(self, "Campo non valido.", TRUE, "none")
    ELSE set_status(refresh_data([self EXCEPT !.order_by =
                                      IF _prompt_input(typed) = <<>> THEN None
                                      ELSE Some(_prompt_input(typed))],
                                 ps),
                    "Ordinamento aggiornato.", FALSE, "none")

\* _add_product_dialog: the object and the store afterwards
_add_product_dialog(self, ps, seq, typed, quantity, unit_price) ==
    LET a == [code |-> _prompt_input(typed.code), name |-> _prompt_input(typed.name),
              description |-> _prompt_input(typed.description),
              category |-> _prompt_input(typed.category),
              quantity |-> quantity, price |-> unit_price,
              location |-> _prompt_input(typed.location)]
        r == add_product(ps, seq, a)
    IN  IF a.code = <<>> \/ a.name = <<>>
        THEN [self |-> set_status(self, "Inserimento annullato: dati insufficienti.",
                                  TRUE, "none"),
              raised |-> "none", rowid |-> 0, products |-> ps, seq |-> seq]
        ELSE [self |-> IF r.raised # "none"
                       THEN set_status(self, "Errore nell'aggiunta", TRUE, r.raised)
                       ELSE set_status(refresh_data(self, r.products),
                                       "Prodotto aggiunto correttamente.", FALSE, "none"),
              raised |-> r.raised, rowid |-> r.rowid, products |-> r.products,
              seq |-> r.seq]

\* a typed line, or None when nothing was typed: _prompt_input(...) or None
or_None(typed) == IF _prompt_input(typed) = <<>> THEN None ELSE Some(_prompt_input(typed))

\* _edit_product_dialog: the object and the rows of the table afterwards
_edit_product_dialog(self, ps, typed, quantity, unit_price) ==
    LET row == _current_row(self)
        r == update_product(ps, row.value.id,
                            [name |-> or_None(typed.name),
                             description |-> or_None(typed.description),
                             category |-> or_None(typed.category),
                             quantity |-> quantity, price |-> unit_price,
                             location |-> or_None(typed.location)])
    IN  IF ~row.present
        THEN [self |-> set_status(self, "Nessun prodotto selezionato.", TRUE, "none"),
              products |-> ps]
        ELSE IF r.raised # "none"
        THEN [self |-> set_status(self, "Errore aggiornamento", TRUE, r.raised),
              products |-> ps]
        ELSE IF r.returned = "True"
        THEN [self |-> set_status(refresh_data(self, r.products), "Prodotto aggiornato.",
                                  FALSE, "none"),
              products |-> r.products]
        ELSE [self |-> set_status(self, "Prodotto non trovato.", TRUE, "none"),
              products |-> r.products]

\* _prompt_yes_no: the answer typed, in small letters, is "s"
_prompt_yes_no(typed) == str_lower(_prompt_input(typed)) = <<"s">>

\* _delete_selected: the object and the rows of the table afterwards
_delete_selected(self, ps, typed) ==
    LET row == _current_row(self)
        r == delete_product(ps, row.value.id)
    IN  IF ~row.present
        THEN [self |-> set_status(self, "Nessun prodotto selezionato.", TRUE, "none"),
              products |-> ps]
        ELSE IF ~_prompt_yes_no(typed)
        THEN [self |-> set_status(self, "Eliminazione annullata.", FALSE, "none"),
              products |-> ps]
        ELSE IF r.returned = "True"
        THEN [self |-> set_status(refresh_data(self, r.products), "Prodotto eliminato.",
                                  FALSE, "none"),
              products |-> r.products]
        ELSE [self |-> set_status(self, "Prodotto non trovato.", TRUE, "none"),
              products |-> r.products]

(***************************************************************************)
(* The state machine: the calls a front-end makes on the store.            *)
(***************************************************************************)
Call(op, args, raised, returned) ==
    [op |-> op, args |-> args, raised |-> raised, returned |-> returned,
     before |-> products, before_seq |-> sqlite_sequence]

Idle == [op |-> "none", args |-> [none |-> TRUE], raised |-> "none",
         returned |-> "None", before |-> <<>>, before_seq |-> 0]

\* no call is under way
NoCall == last.op = "none"

Init ==
    /\ products = <<>>
    /\ sqlite_sequence = 0
    /\ last = Idle
    /\ issued = <<>>
    /\ tui = InventoryTUI(24)

\* a front-end starts on the database file: CREATE TABLE IF NOT EXISTS
InitializeDatabase ==
    /\ NoCall
    /\ last' = Call("initialize_database", [none |-> TRUE], "none", "None")
    /\ UNCHANGED <<products, sqlite_sequence, issued, tui>>

AddProduct ==
    \E a \in AddArgs :
        LET r == add_product(products, sqlite_sequence, a) IN
        /\ NoCall
        /\ r.seq <= MaxId
        /\ products' = r.products
        /\ sqlite_sequence' = r.seq
        /\ issued' = IF r.raised = "none" THEN Append(issued, r.rowid) ELSE issued
        /\ last' = Call("add_product", a, r.raised, "None")
        /\ UNCHANGED tui

UpdateProduct ==
    \E product_id \in Ids, patch \in Patches :
        LET r == update_product(products, product_id, patch) IN
        /\ NoCall
        /\ products' = r.products
        /\ last' = Call("update_product", [product_id |-> product_id, patch |-> patch],
                        r.raised, r.returned)
        /\ UNCHANGED <<sqlite_sequence, issued, tui>>

DeleteProduct ==
    \E product_id \in Ids :
        LET r == delete_product(products, product_id) IN
        /\ NoCall
        /\ products' = r.products
        /\ last' = Call("delete_product", [product_id |-> product_id], r.raised, r.returned)
        /\ UNCHANGED <<sqlite_sequence, issued, tui>>

CalculateTotalValue ==
    /\ NoCall
    /\ last' = Call("calculate_total_value", [none |-> TRUE], "none",
                    calculate_total_value(products))
    /\ UNCHANGED <<products, sqlite_sequence, issued, tui>>

\* the call is over: the front-end is back at its menu, ready for the next command
Return ==
    /\ ~NoCall
    /\ last' = Idle
    /\ UNCHANGED <<products, sqlite_sequence, issued, tui>>

Next ==
    \/ InitializeDatabase
    \/ AddProduct
    \/ UpdateProduct
    \/ DeleteProduct
    \/ CalculateTotalValue
    \/ Return

Spec == Init /\ [][Next]_vars

(***************************************************************************)
(* The read calls, on a catalog that earlier add_product calls have built. *)
(***************************************************************************)
\* the catalogs of the read calls have at most this many rows
MaxRows == 3

\* the rows the catalogs are made of, as add_product stores them: different codes,
\* text with no whitespace around it, quantity >= 0 and price >= 0; two of them
\* have the same price, two the same quantity, and the categories and locations
\* differ in letter case or in length only
Stock ==
    << [code |-> <<"b">>, name |-> <<"A", "b">>, description |-> <<"d">>,
        category |-> <<"C">>, quantity |-> 2, price |-> 3, location |-> <<"l">>],
       [code |-> <<"A">>, name |-> <<"n">>, description |-> <<"d">>,
        category |-> <<"c">>, quantity |-> 0, price |-> 3, location |-> <<"L">>],
       [code |-> <<"a", "%">>, name |-> <<"x", "_", "y">>, description |-> <<"d">>,
        category |-> <<"c", "c">>, quantity |-> 2, price |-> 1, location |-> <<"l">>],
       [code |-> <<"c">>, name |-> <<"_">>, description |-> <<"d">>,
        category |-> <<"c">>, quantity |-> 1, price |-> 2, location |-> <<"l", "l">>] >>

\* the sequences of at most MaxRows different rows of Stock
Picks ==
    UNION {{q \in [1..n -> 1..Len(Stock)] : \A i, j \in 1..n : i # j => q[i] # q[j]} :
           n \in 0..MaxRows}

\* the table after add_product was called with the picked rows, in this order
Catalog(q) ==
    [i \in 1..Len(q) |->
        [id |-> i, code |-> Stock[q[i]].code, name |-> Stock[q[i]].name,
         description |-> Stock[q[i]].description, category |-> Stock[q[i]].category,
         quantity |-> Stock[q[i]].quantity, price |-> Stock[q[i]].price,
         location |-> Stock[q[i]].location]]

\* the arguments of the read calls
SortFields ==
    {None, Some(<<>>), Some(<<"i", "d">>), Some(<<"c", "o", "d", "e">>),
     Some(<<"n", "a", "m", "e">>), Some(<<"q", "u", "a", "n", "t", "i", "t", "y">>),
     Some(<<"p", "r", "i", "c", "e">>), Some(<<"P", "R", "I", "C", "E">>),
     Some(<<"c", "a", "t", "e", "g", "o", "r", "y">>),
     Some(<<"l", "o", "c", "a", "t", "i", "o", "n">>),
     Some(<<"d", "e", "s", "c", "r", "i", "p", "t", "i", "o", "n">>),
     Some(<<" ", "i", "d">>)}

FilterSortFields == {None, Some(<<"n", "a", "m", "e">>), Some(<<"n", "o">>)}

Terms == {<<>>, <<"a">>, <<"B">>, <<" ", "a", " ">>, <<"%">>, <<"_">>, <<"x", "_">>,
          <<"y", "x">>}

CategoryArgs == {<<"c">>, <<"C">>, <<" ", "c", " ">>, <<"c", "c">>, <<"x">>}

LocationArgs == {<<"l">>, <<"L">>, <<"l", " ">>, <<"l", "l">>}

Thresholds == {-1, 0, 1, 2}

InitQuery ==
    /\ \E q \in Picks : products = Catalog(q)
    /\ sqlite_sequence = Len(products)
    /\ issued = [i \in 1..Len(products) |-> i]
    /\ last = Idle
    /\ tui = InventoryTUI(24)

GetAllProducts ==
    \E order_by \in SortFields, descending \in BOOLEAN :
        LET r == get_all_products_ordered(products, order_by, descending) IN
        /\ NoCall
        /\ last' = Call("get_all_products",
                        [order_by |-> order_by, descending |-> descending],
                        r.raised, r.returned)
        /\ UNCHANGED <<products, sqlite_sequence, issued, tui>>

SearchProducts ==
    \E term \in Terms, order_by \in FilterSortFields, descending \in BOOLEAN :
        LET r == search_products(products, term, order_by, descending) IN
        /\ NoCall
        /\ last' = Call("search_products",
                        [term |-> term, order_by |-> order_by, descending |-> descending],
                        r.raised, r.returned)
        /\ UNCHANGED <<products, sqlite_sequence, issued, tui>>

FilterByCategory ==
    \E category \in CategoryArgs, order_by \in FilterSortFields, descending \in BOOLEAN :
        LET r == filter_by_category(products, category, order_by, descending) IN
        /\ NoCall
        /\ last' = Call("filter_by_category",
                        [category |-> category, order_by |-> order_by,
                         descending |-> descending],
                        r.raised, r.returned)
        /\ UNCHANGED <<products, sqlite_sequence, issued, tui>>

FilterByLocation ==
    \E location \in LocationArgs, order_by \in FilterSortFields, descending \in BOOLEAN :
        LET r == filter_by_location(products, location, order_by, descending) IN
        /\ NoCall
        /\ last' = Call("filter_by_location",
                        [location |-> location, order_by |-> order_by,
                         descending |-> descending],
                        r.raised, r.returned)
        /\ UNCHANGED <<products, sqlite_sequence, issued, tui>>

GetLowStockItems ==
    \E threshold \in Thresholds :
        LET r == get_low_stock_items(products, threshold) IN
        /\ NoCall
        /\ last' = Call("get_low_stock_items", [threshold |-> threshold],
                        r.raised, r.returned)
        /\ UNCHANGED <<products, sqlite_sequence, issued, tui>>

NextQuery ==
    \/ GetAllProducts
    \/ SearchProducts
    \/ FilterByCategory
    \/ FilterByLocation
    \/ GetLowStockItems
    \/ Return

SpecQuery == InitQuery /\ [][NextQuery]_vars

(***************************************************************************)
(* The terminal table at work: InventoryTUI.run().  Every state is the     *)
(* object as draw() paints it; a step is one event of the loop, with the   *)
(* whole dialog it opens.                                                  *)
(***************************************************************************)
\* what the user types at the prompts
TypedCodes == {<<>>, <<"a">>, <<" ", "b">>}
TypedTerms == {<<>>, <<"a", " ">>}
TypedChoices == {<<"0">>, <<"1">>, <<"2">>, <<" ", "3">>, <<"9">>}
TypedValues == {<<>>, <<"l">>}
TypedThresholds == {-1, 0}
TypedFields == {<<>>, <<"c", "o", "d", "e">>, <<"C", "O", "D", "E">>}
TypedQuantities == {-1, 2}
TypedAnswers == {<<"S">>, <<"n">>}
EditedQuantities == {None, Some(-1), Some(0)}

\* the lines typed in the add dialog, the code apart
TypedProduct(code) ==
    [code |-> code, name |-> <<"n">>, description |-> <<"d">>, category |-> <<"c">>,
     location |-> <<"l">>]

\* the lines typed in the edit dialog: every text is left empty
TypedNothing ==
    [name |-> <<>>, description |-> <<>>, category |-> <<>>, location |-> <<>>]

\* the screen lines of the pointer: the separator and the lines under it
MouseLines == {2, 3, 4}

\* run() up to the loop: initialize_database() on a new file, then refresh_data()
InitTUI ==
    /\ products = <<>>
    /\ sqlite_sequence = 0
    /\ issued = <<>>
    /\ last = Idle
    /\ \E height \in Heights : tui = refresh_data(InventoryTUI(height), products)

\* key == curses.KEY_RESIZE: the screen has a new height
KeyResize ==
    \E height \in Heights :
        /\ height # tui.height
        /\ tui' = _clamp_selection([tui EXCEPT !.height = height])
        /\ UNCHANGED <<products, sqlite_sequence, issued, last>>

Key(key) ==
    /\ tui' = _handle_key(tui, products, key)
    /\ UNCHANGED <<products, sqlite_sequence, issued, last>>

KeyDown == Key("KEY_DOWN")

KeyUp == Key("KEY_UP")

KeyNPage == Key("KEY_NPAGE")

KeyPPage == Key("KEY_PPAGE")

KeyHome == Key("KEY_HOME")

KeyEnd == Key("KEY_END")

KeyRefresh == Key("r")

KeyToggleDescending == Key("O")

KeyTotal == Key("t")

KeyEnter == Key("KEY_ENTER")

KeyHelp == Key("h")

\* key == curses.KEY_MOUSE: a click or a double click on a line, or the wheel
KeyMouse ==
    \E state \in {"BUTTON1_CLICKED", "BUTTON1_DOUBLE_CLICKED", "BUTTON4_PRESSED",
                  "BUTTON5_PRESSED"},
       y \in MouseLines :
        /\ state \in {"BUTTON4_PRESSED", "BUTTON5_PRESSED"} => y = table_start
        /\ tui' = _handle_mouse(tui, state, y)
        /\ UNCHANGED <<products, sqlite_sequence, issued, last>>

\* the prompt may be ended by a resize; a resize during the prompts of another
\* dialog leaves the object as this dialog, resized with nothing typed, and then
\* that dialog would
SearchDialog ==
    \E typed \in TypedTerms, height \in Heights :
        /\ tui' = _search_dialog(prompted(tui, height), products, typed)
        /\ UNCHANGED <<products, sqlite_sequence, issued, last>>

\* the category or location is asked for after choice 1 or 2 only, the threshold
\* after choice 3 only
FilterDialog ==
    \E choice \in TypedChoices, typed \in TypedValues, threshold \in TypedThresholds :
        /\ _prompt_input(choice) \notin {<<"1">>, <<"2">>} => typed = <<>>
        /\ _prompt_input(choice) # <<"3">> => threshold = 0
        /\ tui' = _filter_dialog(tui, products, choice, typed, threshold)
        /\ UNCHANGED <<products, sqlite_sequence, issued, last>>

OrderingDialog ==
    \E typed \in TypedFields :
        /\ tui' = _ordering_dialog(tui, products, typed)
        /\ UNCHANGED <<products, sqlite_sequence, issued, last>>

AddProductDialog ==
    \E code \in TypedCodes, quantity \in TypedQuantities :
        LET r == _add_product_dialog(tui, products, sqlite_sequence, TypedProduct(code),
                                     quantity, 3) IN
        /\ r.seq <= MaxId
        /\ tui' = r.self
        /\ products' = r.products
        /\ sqlite_sequence' = r.seq
        /\ issued' = IF r.rowid # 0 THEN Append(issued, r.rowid) ELSE issued
        /\ UNCHANGED last

EditProductDialog ==
    \E quantity \in EditedQuantities :
        LET r == _edit_product_dialog(tui, products, TypedNothing, quantity, None) IN
        /\ tui' = r.self
        /\ products' = r.products
        /\ UNCHANGED <<sqlite_sequence, issued, last>>

DeleteSelected ==
    \E typed \in TypedAnswers :
        LET r == _delete_selected(tui, products, typed) IN
        /\ tui' = r.self
        /\ products' = r.products
        /\ UNCHANGED <<sqlite_sequence, issued, last>>

NextTUI ==
    \/ KeyResize
    \/ KeyDown
    \/ KeyUp
    \/ KeyNPage
    \/ KeyPPage
    \/ KeyHome
    \/ KeyEnd
    \/ KeyRefresh
    \/ KeyToggleDescending
    \/ KeyTotal
    \/ KeyEnter
    \/ KeyHelp
    \/ KeyMouse
    \/ SearchDialog
    \/ FilterDialog
    \/ OrderingDialog
    \/ AddProductDialog
    \/ EditProductDialog
    \/ DeleteSelected

SpecTUI == InitTUI /\ [][NextTUI]_vars

(***************************************************************************)
(* One command at a time: the terminal table in a session where the user   *)
(* presses h (the guide) after every other event.  The state after an      *)
(* event is the redraw that follows it, with the event in last: the key,   *)
(* what was typed at the prompts, and the object and the rows of the store *)
(* as they were before it.  No handler reads the status line, so the guide *)
(* between two events takes no state of the table away.                    *)
(***************************************************************************)
Event(op, args) == [op |-> op, args |-> args, self |-> tui, before |-> products]

NoArgs == [none |-> TRUE]

\* the keys of _handle_key that open no prompt, the guide apart
Keys == {"KEY_DOWN", "KEY_UP", "KEY_NPAGE", "KEY_PPAGE", "KEY_HOME", "KEY_END",
         "r", "O", "t", "KEY_ENTER"}

MouseStates ==
    {"BUTTON1_CLICKED", "BUTTON1_DOUBLE_CLICKED", "BUTTON4_PRESSED", "BUTTON5_PRESSED"}

OnResize ==
    \E height \in Heights :
        /\ NoCall
        /\ height # tui.height
        /\ tui' = _clamp_selection([tui EXCEPT !.height = height])
        /\ last' = Event("KEY_RESIZE", [height |-> height])
        /\ UNCHANGED <<products, sqlite_sequence, issued>>

OnKey ==
    \E key \in Keys :
        /\ NoCall
        /\ tui' = _handle_key(tui, products, key)
        /\ last' = Event(key, NoArgs)
        /\ UNCHANGED <<products, sqlite_sequence, issued>>

OnMouse ==
    \E state \in MouseStates, y \in MouseLines :
        /\ NoCall
        /\ state \in {"BUTTON4_PRESSED", "BUTTON5_PRESSED"} => y = table_start
        /\ tui' = _handle_mouse(tui, state, y)
        /\ last' = Event("KEY_MOUSE", [state |-> state, y |-> y])
        /\ UNCHANGED <<products, sqlite_sequence, issued>>

OnSearch ==
    \E typed \in TypedTerms, height \in Heights :
        /\ NoCall
        /\ tui' = _search_dialog(prompted(tui, height), products, typed)
        /\ last' = Event("/", [typed |-> typed, height |-> height])
        /\ UNCHANGED <<products, sqlite_sequence, issued>>

OnFilter ==
    \E choice \in TypedChoices, typed \in TypedValues, threshold \in TypedThresholds :
        /\ NoCall
        /\ _prompt_input(choice) \notin {<<"1">>, <<"2">>} => typed = <<>>
        /\ _prompt_input(choice) # <<"3">> => threshold = 0
        /\ tui' = _filter_dialog(tui, products, choice, typed, threshold)
        /\ last' = Event("f", [choice |-> choice, typed |-> typed,
                               threshold |-> threshold])
        /\ UNCHANGED <<products, sqlite_sequence, issued>>

OnOrdering ==
    \E typed \in TypedFields :
        /\ NoCall
        /\ tui' = _ordering_dialog(tui, products, typed)
        /\ last' = Event("o", [typed |-> typed])
        /\ UNCHANGED <<products, sqlite_sequence, issued>>

\* the prices typed in the add dialog, and in the edit dialog
TypedPrices == {-1, 3}
EditedPrices == {None, Some(-1)}

OnAdd ==
    \E code \in TypedCodes, quantity \in TypedQuantities, unit_price \in TypedPrices :
        LET r == _add_product_dialog(tui, products, sqlite_sequence, TypedProduct(code),
                                     quantity, unit_price) IN
        /\ NoCall
        /\ r.seq <= MaxId
        /\ tui' = r.self
        /\ products' = r.products
        /\ sqlite_sequence' = r.seq
        /\ issued' = IF r.rowid # 0 THEN Append(issued, r.rowid) ELSE issued
        /\ last' = Event("a", [code |-> code, quantity |-> quantity,
                               unit_price |-> unit_price])

OnEdit ==
    \E quantity \in EditedQuantities, unit_price \in EditedPrices :
        LET r == _edit_product_dialog(tui, products, TypedNothing, quantity,
                                      unit_price) IN
        /\ NoCall
        /\ tui' = r.self
        /\ products' = r.products
        /\ last' = Event("e", [quantity |-> quantity, unit_price |-> unit_price])
        /\ UNCHANGED <<sqlite_sequence, issued>>

OnDelete ==
    \E typed \in TypedAnswers :
        LET r == _delete_selected(tui, products, typed) IN
        /\ NoCall
        /\ tui' = r.self
        /\ products' = r.products
        /\ last' = Event("d", [typed |-> typed])
        /\ UNCHANGED <<sqlite_sequence, issued>>

\* the guide: key h
Guide ==
    /\ ~NoCall
    /\ tui' = _handle_key(tui, products, "h")
    /\ last' = Idle
    /\ UNCHANGED <<products, sqlite_sequence, issued>>

NextSession ==
    \/ OnResize
    \/ OnKey
    \/ OnMouse
    \/ OnSearch
    \/ OnFilter
    \/ OnOrdering
    \/ OnAdd
    \/ OnEdit
    \/ OnDelete
    \/ Guide

SpecSession == InitTUI /\ [][NextSession]_vars

(***************************************************************************)
(* The numeric prompts: _prompt_int and _prompt_float.  A call is a frame  *)
(* in last: the function, allow_empty, how many lines were typed, where    *)
(* the call is, the line _prompt_input gave and what the call returned.    *)
(***************************************************************************)
\* the longest line typed at a prompt, and the most lines typed in one call
MaxTyped == 3

MaxAsked == 3

Digits == {"0", "1"}

\* the characters typed at a numeric prompt
PromptAlphabet == Digits \cup {"-", ".", ",", " "}

TypedLines == UNION {[1..n -> PromptAlphabet] : n \in 0..MaxTyped}

IsDigits(s) == s # <<>> /\ \A i \in 1..Len(s) : s[i] \in Digits

\* the number a string of digits reads as, taken digit by digit from the left
RECURSIVE digits_value(_, _)
digits_value(s, acc) ==
    IF s = <<>> THEN acc
    ELSE digits_value(Tail(s), acc * 10 + (IF Head(s) = "1" THEN 1 ELSE 0))

\* the sign in front, and the text behind it
sign_of(s) == IF s # <<>> /\ Head(s) = "-" THEN -1 ELSE 1

unsigned(s) == IF s # <<>> /\ Head(s) = "-" THEN Tail(s) ELSE s

\* an int() that takes the empty text for 0
int_lenient(value) ==
    IF unsigned(strip(value)) # <<>> /\ ~IsDigits(unsigned(strip(value)))
    THEN [raised |-> "ValueError", value |-> 0]
    ELSE [raised |-> "none",
          value |-> sign_of(strip(value)) * digits_value(unsigned(strip(value)), 0)]

\* int(value): the integer the text reads as, or ValueError
int(value) ==
    IF ~IsDigits(unsigned(strip(value)))
    THEN [raised |-> "ValueError", value |-> 0]
    ELSE [raised |-> "none",
          value |-> sign_of(strip(value)) * digits_value(unsigned(strip(value)), 0)]

\* value.replace(",", ".")
replace_comma(value) == [i \in 1..Len(value) |-> IF value[i] = "," THEN "." ELSE value[i]]

\* where the first point of the text is (past the end when it has none)
RECURSIVE find_point(_, _)
find_point(s, i) ==
    IF i > Len(s) \/ s[i] = "." THEN i ELSE find_point(s, i + 1)

\* units / 10^scale with no zeros at the end that a smaller scale would not need
RECURSIVE normalized(_, _)
normalized(units, scale) ==
    IF scale > 0 /\ units % 10 = 0 THEN normalized(units \div 10, scale - 1)
    ELSE [units |-> units, scale |-> scale]

\* float(value): the number the text reads as, as units / 10^scale, or ValueError
float(value) ==
    LET u == unsigned(strip(value))
        p == find_point(u, 1)
        whole == SubSeq(u, 1, p - 1)
        frac == SubSeq(u, p + 1, Len(u))
    IN  IF \/ whole = <<>> /\ frac = <<>>
           \/ whole # <<>> /\ ~IsDigits(whole)
           \/ frac # <<>> /\ ~IsDigits(frac)
        THEN [raised |-> "ValueError", value |-> normalized(0, 0)]
        ELSE [raised |-> "none",
              value |-> normalized(sign_of(strip(value)) * digits_value(whole \o frac, 0),
                                   Len(frac))]

\* one turn of the loop of _prompt_int: the object afterwards, whether the call
\* returned, and what
_prompt_int(self, allow_empty, typed) ==
    IF allow_empty /\ _prompt_input(typed) = <<>>
    THEN [self |-> self, done |-> TRUE, returned |-> None]
    ELSE IF int(_prompt_input(typed)).raised = "none"
    THEN [self |-> self, done |-> TRUE, returned |-> Some(int(_prompt_input(typed)).value)]
    ELSE [self |-> set_status(self, "Inserisci un numero intero valido.", TRUE, "none"),
          done |-> FALSE, returned |-> None]

\* one turn of the loop of _prompt_float
_prompt_float(self, allow_empty, typed) ==
    IF allow_empty /\ _prompt_input(typed) = <<>>
    THEN [self |-> self, done |-> TRUE, returned |-> None]
    ELSE IF float(replace_comma(_prompt_input(typed))).raised = "none"
    THEN [self |-> self, done |-> TRUE,
          returned |-> Some(float(replace_comma(_prompt_input(typed))).value)]
    ELSE [self |-> set_status(self, "Inserisci un numero valido.", TRUE, "none"),
          done |-> FALSE, returned |-> None]

\* the frame of a call that waits for a line
Frame(op, allow_empty) ==
    [op |-> op, allow_empty |-> allow_empty, asked |-> 0, pc |-> "_prompt_input",
     value |-> <<>>, returned |-> None]

\* a dialog calls _prompt_int or _prompt_float
PromptCalled ==
    \E op \in {"_prompt_int", "_prompt_float"}, allow_empty \in BOOLEAN :
        /\ NoCall
        /\ last' = Frame(op, allow_empty)
        /\ UNCHANGED <<products, sqlite_sequence, issued, tui>>

\* a line is typed: the turn of the loop on it, up to the return or to the end of the
\* except clause
LineTyped ==
    \E typed \in TypedLines :
        LET r == IF last.op = "_prompt_int" THEN _prompt_int(tui, last.allow_empty, typed)
                 ELSE _prompt_float(tui, last.allow_empty, typed) IN
        /\ last.op \in {"_prompt_int", "_prompt_float"}
        /\ last.pc = "_prompt_input"
        /\ tui' = r.self
        /\ last' = [last EXCEPT !.asked = last.asked + 1, !.value = _prompt_input(typed),
                                !.pc = IF r.done THEN "return" ELSE "except",
                                !.returned = r.returned]
        /\ UNCHANGED <<products, sqlite_sequence, issued>>

\* while True: the prompt is written again and the call waits for the next line
AskedAgain ==
    /\ last.op \in {"_prompt_int", "_prompt_float"}
    /\ last.pc = "except"
    /\ last.asked < MaxAsked
    /\ last' = [last EXCEPT !.pc = "_prompt_input", !.value = <<>>]
    /\ UNCHANGED <<products, sqlite_sequence, issued, tui>>

\* the call is over and the dialog goes on
PromptReturned ==
    /\ last.op \in {"_prompt_int", "_prompt_float"}
    /\ last.pc = "return"
    /\ last' = Idle
    /\ UNCHANGED <<products, sqlite_sequence, issued, tui>>

NextPrompt ==
    \/ PromptCalled
    \/ LineTyped
    \/ AskedAgain
    \/ PromptReturned

SpecPrompt == Init /\ [][NextPrompt]_vars

(***************************************************************************)
(* The menu (src/inventory_manager.py): main() and the _cli_ handlers.  A  *)
(* state is where the loop of main is (last.pc): at the menu, past a       *)
(* handler, out of the loop by break, or out of it by an error that no     *)
(* except clause took.  A handler is given the lines typed at its prompts  *)
(* and gives what it printed, the error it quoted, the error that left it, *)
(* and the table afterwards.                                               *)
(***************************************************************************)
\* the largest value of an INTEGER column, in place of SQLite's 2^63 - 1
MaxInteger == 7

\* conn.execute(sql, parameters): an int parameter that does not fit a signed INTEGER
\* raises OverflowError before the statement runs
execute_raises(parameters) ==
    IF \E v \in parameters : v > MaxInteger \/ v < 0 - MaxInteger - 1
    THEN "OverflowError"
    ELSE "none"

\* the lines typed at the prompts of the menu
MenuCodes == {<<"a">>, <<" ", "b">>}
MenuNames == {<<>>, <<"n", " ">>}
MenuIntegers == {<<>>, <<"0">>, <<" ", "1">>, <<"-", "1">>, <<"1", "1">>, <<"1", ".">>}
MenuPrices == {<<>>, <<"1">>, <<"-", "1">>, <<"1", ",", "0">>}
MenuFields == {<<>>, <<"c", "o", "d", "e">>, <<"n", "o">>}
MenuAnswers == {<<"S">>, <<>>}
MenuTerms == {<<>>, <<"a">>}

\* the lines typed at a prompt that asks until it takes one: at most two
AtMostTwice(lines) == {<<l>> : l \in lines} \cup {<<l, m>> : l \in lines, m \in lines}

\* the price a typed number is stored as: the lines of the model have no fraction
whole(number) == number.units

\* _prompt_for_product_id: the first line that reads as an integer, None while none does
RECURSIVE _prompt_for_product_id(_)
_prompt_for_product_id(typed) ==
    IF typed = <<>> THEN None
    ELSE IF int(strip(Head(typed))).raised = "none"
    THEN Some(int(strip(Head(typed))).value)
    ELSE _prompt_for_product_id(Tail(typed))

\* _prompt_for_quantity: the first line that reads as an integer _validate_quantity takes
RECURSIVE _prompt_for_quantity(_)
_prompt_for_quantity(typed) ==
    IF typed = <<>> THEN None
    ELSE IF /\ int(strip(Head(typed))).raised = "none"
            /\ _validate_quantity(int(strip(Head(typed))).value) = "none"
    THEN Some(int(strip(Head(typed))).value)
    ELSE _prompt_for_quantity(Tail(typed))

\* _prompt_for_price: the first line that reads as a number _validate_price takes
RECURSIVE _prompt_for_price(_)
_prompt_for_price(typed) ==
    IF typed = <<>> THEN None
    ELSE IF /\ float(replace_comma(strip(Head(typed)))).raised = "none"
            /\ _validate_price(whole(float(replace_comma(strip(Head(typed)))).value)) = "none"
    THEN Some(whole(float(replace_comma(strip(Head(typed)))).value))
    ELSE _prompt_for_price(Tail(typed))

\* _prompt_for_sorting: the field typed, or None, and whether "s" was answered
_prompt_for_sorting(typed) ==
    [order_field |-> or_None(typed.order_field),
     descending |-> or_None(typed.order_field).present
                    /\ str_lower(strip(typed.descending)) = <<"s">>]

\* what a handler did: the line it printed, the error the line quotes, the error that
\* left the handler, the rows and the sequence afterwards
Handled(printed, exc, raised, ps, seq) ==
    [printed |-> printed, exc |-> exc, raised |-> raised, products |-> ps, seq |-> seq]

_cli_add_product(ps, seq, typed) ==
    LET a == [code |-> strip(typed.code), name |-> strip(typed.name),
              description |-> strip(typed.description), category |-> strip(typed.category),
              quantity |-> _prompt_for_quantity(typed.quantity).value,
              price |-> _prompt_for_price(typed.price).value,
              location |-> strip(typed.location)]
        r == add_product(ps, seq, a)
    IN  IF r.raised \in {"InvalidQuantity", "InvalidPrice"}
        THEN Handled("Errore: ...", r.raised, "none", ps, seq)
        ELSE IF execute_raises({a.quantity}) # "none"
        THEN Handled("", "none", execute_raises({a.quantity}), ps, seq)
        ELSE IF r.raised # "none"
        THEN Handled("Errore: ...", r.raised, "none", ps, seq)
        ELSE Handled("Prodotto aggiunto correttamente.", "none", "none", r.products, r.seq)

\* the handlers that print a table: the rows the read gave, or its error
printed_table(r, ps, seq) ==
    IF r.raised # "none"
    THEN Handled("Errore: ...", r.raised, "none", ps, seq)
    ELSE Handled("ID | Codice | ...", "none", "none", ps, seq)

_cli_view_products(ps, seq, typed) ==
    printed_table(get_all_products_ordered(ps, _prompt_for_sorting(typed).order_field,
                                           _prompt_for_sorting(typed).descending),
                  ps, seq)

_cli_update_product(ps, seq, typed) ==
    LET product_id == _prompt_for_product_id(typed.product_id).value
        quantity_input == strip(typed.quantity)
        price_input == replace_comma(strip(typed.price))
        quantity == IF quantity_input = <<>> THEN None
                    ELSE Some(int(quantity_input).value)
        price == IF price_input = <<>> THEN None
                 ELSE Some(whole(float(price_input).value))
        patch == [name |-> or_None(typed.name), description |-> or_None(typed.description),
                  category |-> or_None(typed.category), quantity |-> quantity,
                  price |-> price, location |-> or_None(typed.location)]
        parameters == {product_id} \cup (IF quantity.present THEN {quantity.value} ELSE {})
        r == update_product(ps, product_id, patch)
    IN  IF quantity_input # <<>> /\ int(quantity_input).raised # "none"
        THEN Handled("Errore: ...", int(quantity_input).raised, "none", ps, seq)
        ELSE IF quantity.present /\ _validate_quantity(quantity.value) # "none"
        THEN Handled("Errore: ...", _validate_quantity(quantity.value), "none", ps, seq)
        ELSE IF price_input # <<>> /\ float(price_input).raised # "none"
        THEN Handled("Errore: ...", float(price_input).raised, "none", ps, seq)
        ELSE IF price.present /\ _validate_price(price.value) # "none"
        THEN Handled("Errore: ...", _validate_price(price.value), "none", ps, seq)
        ELSE IF r.raised # "none"
        THEN Handled("Errore: ...", r.raised, "none", ps, seq)
        ELSE IF execute_raises(parameters) # "none"
        THEN Handled("", "none", execute_raises(parameters), ps, seq)
        ELSE IF r.returned = "True"
        THEN Handled("Prodotto aggiornato correttamente.", "none", "none", r.products, seq)
        ELSE Handled("Nessun prodotto trovato con l'ID fornito.", "none", "none",
                     r.products, seq)

_cli_delete_product(ps, seq, typed) ==
    LET product_id == _prompt_for_product_id(typed.product_id).value
        r == delete_product(ps, product_id)
    IN  IF execute_raises({product_id}) # "none"
        THEN Handled("", "none", execute_raises({product_id}), ps, seq)
        ELSE IF r.returned = "True"
        THEN Handled("Prodotto eliminato.", "none", "none", r.products, seq)
        ELSE Handled("Nessun prodotto trovato con l'ID fornito.", "none", "none",
                     r.products, seq)

_cli_search_products(ps, seq, typed) ==
    printed_table(search_products(ps, strip(typed.term),
                                  _prompt_for_sorting(typed).order_field,
                                  _prompt_for_sorting(typed).descending),
                  ps, seq)

_cli_filter_category(ps, seq, typed) ==
    printed_table(filter_by_category(ps, strip(typed.term),
                                     _prompt_for_sorting(typed).order_field,
                                     _prompt_for_sorting(typed).descending),
                  ps, seq)

_cli_filter_location(ps, seq, typed) ==
    printed_table(filter_by_location(ps, strip(typed.term),
                                     _prompt_for_sorting(typed).order_field,
                                     _prompt_for_sorting(typed).descending),
                  ps, seq)

\* no except clause here: an error of get_low_stock_items leaves the handler
_cli_low_stock_alert(ps, seq, typed) ==
    LET threshold == _prompt_for_quantity(typed.threshold).value
        r == get_low_stock_items(ps, threshold)
    IN  IF r.raised # "none"
        THEN Handled("", "none", r.raised, ps, seq)
        ELSE IF execute_raises({threshold}) # "none"
        THEN Handled("", "none", execute_raises({threshold}), ps, seq)
        ELSE IF r.returned # <<>>
        THEN Handled("Attenzione! I seguenti prodotti sono sotto la soglia:", "none",
                     "none", ps, seq)
        ELSE Handled("Nessun prodotto sotto la soglia specificata.", "none", "none", ps, seq)

_cli_total_value(ps, seq) ==
    Handled("Valore complessivo: ...", "none", "none", ps, seq)

\* export_to_csv: open(filename, "w") gives the file, or raises OSError
_cli_export_csv(ps, seq, opened) ==
    IF opened
    THEN Handled("Inventario esportato in: ...", "none", "none", ps, seq)
    ELSE Handled("", "none", "OSError", ps, seq)

\* the lines typed at a prompt are the lines it asked for: it took the last and none
\* before it
TypedAll(prompt(_), typed) ==
    /\ prompt(typed).present
    /\ ~prompt(SubSeq(typed, 1, Len(typed) - 1)).present

\* choice = input(...).strip()
MenuChoices ==
    {<<"0">>, <<"1">>, <<"2">>, <<"3">>, <<"4">>, <<"5">>, <<"6">>, <<"7">>, <<"8">>,
     <<"9">>, <<"1", "0">>, <<" ", "0">>, <<"1", "1">>, <<>>}

MENU_OPTIONS ==
    {<<"1">>, <<"2">>, <<"3">>, <<"4">>, <<"5">>, <<"6">>, <<"7">>, <<"8">>, <<"9">>,
     <<"1", "0">>}

\* the frame of main: where the loop is, the choice and the lines typed, and what the
\* handler did
Main(pc, choice, typed, h) ==
    [op |-> "main", pc |-> pc, choice |-> choice, typed |-> typed, printed |-> h.printed,
     exc |-> h.exc, raised |-> h.raised, before |-> products]

\* main waits for a choice: display_menu() has printed the menu
Menu == Main("input", <<>>, NoArgs, Handled("", "none", "none", products, sqlite_sequence))

InitMenu ==
    /\ products = <<>>
    /\ sqlite_sequence = 0
    /\ issued = <<>>
    /\ tui = InventoryTUI(24)
    /\ last = Menu

AtMenu == last.op = "main" /\ last.pc = "input"

\* handler() for the choice typed: the loop goes on when the handler returns, and
\* main is left with the error when it does not
Handler(choice, typed, h) ==
    /\ products' = h.products
    /\ sqlite_sequence' = h.seq
    /\ issued' = IF h.seq # sqlite_sequence THEN Append(issued, h.seq) ELSE issued
    /\ last' = Main(IF h.raised = "none" THEN "handler" ELSE "raise", choice, typed, h)
    /\ UNCHANGED tui

\* the lines typed at the prompts that ask until they take one
ProductIdLines == {t \in AtMostTwice(MenuIntegers) : TypedAll(_prompt_for_product_id, t)}
QuantityLines == {t \in AtMostTwice(MenuIntegers) : TypedAll(_prompt_for_quantity, t)}
PriceLines == {t \in AtMostTwice(MenuPrices) : TypedAll(_prompt_for_price, t)}

SortingLines == [order_field : MenuFields, descending : MenuAnswers]
TermLines == [term : MenuTerms, order_field : MenuFields, descending : MenuAnswers]

\* the user picks an entry of MENU_OPTIONS
Picked(option) ==
    /\ AtMenu
    /\ \E choice \in MenuChoices : strip(choice) = option

MenuAddProduct ==
    /\ Picked(<<"1">>)
    /\ \E typed \in [code : MenuCodes, name : MenuNames, description : {<<>>},
                      category : {<<"c">>}, quantity : QuantityLines, price : PriceLines,
                      location : {<<"l">>}] :
           /\ _cli_add_product(products, sqlite_sequence, typed).seq <= MaxId
           /\ Handler(<<"1">>, typed, _cli_add_product(products, sqlite_sequence, typed))

MenuViewProducts ==
    /\ Picked(<<"2">>)
    /\ \E typed \in SortingLines :
           Handler(<<"2">>, typed, _cli_view_products(products, sqlite_sequence, typed))

MenuUpdateProduct ==
    /\ Picked(<<"3">>)
    /\ \E typed \in [product_id : ProductIdLines, name : MenuNames, description : {<<>>},
                      category : {<<>>}, quantity : MenuIntegers, price : MenuPrices,
                      location : {<<>>}] :
           Handler(<<"3">>, typed, _cli_update_product(products, sqlite_sequence, typed))

MenuDeleteProduct ==
    /\ Picked(<<"4">>)
    /\ \E typed \in [product_id : ProductIdLines] :
           Handler(<<"4">>, typed, _cli_delete_product(products, sqlite_sequence, typed))

MenuSearchProducts ==
    /\ Picked(<<"5">>)
    /\ \E typed \in TermLines :
           Handler(<<"5">>, typed, _cli_search_products(products, sqlite_sequence, typed))

MenuFilterCategory ==
    /\ Picked(<<"6">>)
    /\ \E typed \in TermLines :
           Handler(<<"6">>, typed, _cli_filter_category(products, sqlite_sequence, typed))

MenuFilterLocation ==
    /\ Picked(<<"7">>)
    /\ \E typed \in TermLines :
           Handler(<<"7">>, typed, _cli_filter_location(products, sqlite_sequence, typed))

MenuLowStockAlert ==
    /\ Picked(<<"8">>)
    /\ \E typed \in [threshold : QuantityLines] :
           Handler(<<"8">>, typed, _cli_low_stock_alert(products, sqlite_sequence, typed))

MenuTotalValue ==
    /\ Picked(<<"9">>)
    /\ Handler(<<"9">>, NoArgs, _cli_total_value(products, sqlite_sequence))

\* the file system decides whether the file opens
MenuExportCsv ==
    /\ Picked(<<"1", "0">>)
    /\ \E typed \in [filename : MenuTerms], opened \in BOOLEAN :
           Handler(<<"1", "0">>, typed, _cli_export_csv(products, sqlite_sequence, opened))

\* a choice that MENU_OPTIONS does not have
MenuInvalidOption ==
    \E choice \in MenuChoices :
        /\ AtMenu
        /\ strip(choice) # <<"0">>
        /\ strip(choice) \notin MENU_OPTIONS
        /\ Handler(strip(choice), NoArgs,
                   Handled("Opzione non valida. Riprova.", "none", "none", products,
                           sqlite_sequence))

\* choice == "0": break
MenuExit ==
    /\ AtMenu
    /\ \E choice \in MenuChoices : strip(choice) = <<"0">>
    /\ last' = Main("break", <<"0">>, NoArgs,
                    Handled("Uscita dal programma. A presto!", "none", "none", products,
                            sqlite_sequence))
    /\ UNCHANGED <<products, sqlite_sequence, issued, tui>>

\* while True: display_menu() and the next choice
DisplayMenu ==
    /\ last.op = "main"
    /\ last.pc = "handler"
    /\ last' = Menu
    /\ UNCHANGED <<products, sqlite_sequence, issued, tui>>

NextMenu ==
    \/ MenuAddProduct
    \/ MenuViewProducts
    \/ MenuUpdateProduct
    \/ MenuDeleteProduct
    \/ MenuSearchProducts
    \/ MenuFilterCategory
    \/ MenuFilterLocation
    \/ MenuLowStockAlert
    \/ MenuTotalValue
    \/ MenuExportCsv
    \/ MenuInvalidOption
    \/ MenuExit
    \/ DisplayMenu

SpecMenu == InitMenu /\ [][NextMenu]_vars

(***************************************************************************)
(* The claims about the catalog store.                                     *)
(***************************************************************************)
Rows(ps) == {ps[i] : i \in 1..Len(ps)}

CodesOf(ps) == {ps[i].code : i \in 1..Len(ps)}

\* the row of ps with this id (there is one)
RowOf(ps, id) == CHOOSE r \in Rows(ps) : r.id = id

AddCalled == last.op = "add_product"

UpdateCalled == last.op = "update_product"

\* C1: after any sequence of add, update and delete calls, successful or failed,
\* no two live rows have the same code.
C1_CodeUnique ==
    \A i, j \in 1..Len(products) : i # j => products[i].code # products[j].code

\* C1 happens: two rows are live and an add of a code one of them has was refused
C1_Witness ==
    /\ Len(products) = 2
    /\ AddCalled
    /\ last.args.code \in CodesOf(last.before)
    /\ last.raised = "DuplicateCode"

\* C2: every successful add assigns an id that no earlier add assigned, the ids of
\* the rows deleted since included: the ids issued so far are pairwise different.
C2_IdNeverReused ==
    \A i, j \in 1..Len(issued) : i # j => issued[i] # issued[j]

\* C2 happens: an add succeeded after the row of an earlier add was deleted
C2_Witness ==
    /\ AddCalled
    /\ last.raised = "none"
    /\ Len(issued) = 2
    /\ issued[1] \notin Rowids(products)
    /\ issued[2] \in Rowids(products)

\* C3: every stored row has quantity >= 0 and price >= 0, whatever calls, with
\* valid or invalid arguments, were made.
C3_NumericInvariants ==
    \A i \in 1..Len(products) : products[i].quantity >= 0 /\ products[i].price >= 0

\* C3 happens: an update carrying a negative number was made on a row that is there
C3_Witness ==
    /\ UpdateCalled
    /\ last.args.product_id \in Rowids(last.before)
    /\ \/ last.args.patch.quantity = Some(-1)
       \/ last.args.patch.price = Some(-1)
    /\ products # <<>>

\* C4: every live row has a non-empty code and a non-empty name.
C4_CodeAndNameNonEmpty ==
    \A i \in 1..Len(products) : products[i].code # <<>> /\ products[i].name # <<>>

\* an add_product call whose code is in no row and whose numbers are not negative
FreshValidAdd ==
    /\ AddCalled
    /\ last.args.code \notin CodesOf(last.before)
    /\ last.args.quantity >= 0
    /\ last.args.price >= 0

DuplicateAdd == AddCalled /\ last.args.code \in CodesOf(last.before)

NegativeQuantity ==
    \/ AddCalled /\ last.args.quantity < 0
    \/ UpdateCalled /\ last.args.patch.quantity.present /\ last.args.patch.quantity.value < 0

NegativePrice ==
    \/ AddCalled /\ last.args.price < 0
    \/ UpdateCalled /\ last.args.patch.price.present /\ last.args.patch.price.value < 0

\* C7 (as claimed): an add or update that carries quantity < 0 fails with
\* InvalidQuantity, one that carries price < 0 fails with InvalidPrice, and in both
\* cases the catalog is as before the call.
C7_NegativeRefused ==
    /\ NegativeQuantity => last.raised = "InvalidQuantity" /\ products = last.before
    /\ NegativePrice => last.raised = "InvalidPrice" /\ products = last.before

\* C7 (amended): an add or update that carries quantity < 0 fails with
\* InvalidQuantity; one that carries price < 0 fails with InvalidPrice unless it also
\* carries quantity < 0, and then with InvalidQuantity; in every one of these cases
\* the catalog is as before the call, whatever else the call carries.
C7_NegativeRefusedQuantityFirst ==
    /\ NegativeQuantity => last.raised = "InvalidQuantity" /\ products = last.before
    /\ (NegativePrice /\ ~NegativeQuantity) =>
           last.raised = "InvalidPrice" /\ products = last.before
    /\ NegativePrice => last.raised # "none" /\ products = last.before

\* C7 happens: an update of a row that is there carried a new name and a negative
\* quantity
C7_Witness ==
    /\ UpdateCalled
    /\ last.args.product_id \in Rowids(last.before)
    /\ last.args.patch.quantity = Some(-1)
    /\ last.args.patch.name.present
    /\ strip(last.args.patch.name.value) # RowOf(last.before, last.args.product_id).name
    /\ last.raised = "InvalidQuantity"

\* C8: update with every field absent fails with NoFieldsProvided and leaves the
\* catalog as it was, whether or not a row has the id.
C8_NoFieldsProvided ==
    (UpdateCalled /\ Present(last.args.patch) = {}) =>
        last.raised = "NoFieldsProvided" /\ products = last.before

\* C8 happens: an update with no field was made with the id of a row, in a catalog
\* that also misses an id
C8_Witness ==
    /\ UpdateCalled
    /\ Present(last.args.patch) = {}
    /\ last.args.product_id \in Rowids(last.before)
    /\ Ids \ Rowids(last.before) # {}

\* C9: a successful update of an existing row changes, on that row, the fields
\* present in the patch (to the supplied value, text trimmed) and nothing else: the
\* absent fields, the id and the code keep their values, and so does every other row.
C9_UpdateFrame ==
    (UpdateCalled /\ last.raised = "none" /\ last.returned = "True") =>
        /\ Len(products) = Len(last.before)
        /\ \A i \in 1..Len(last.before) :
              IF last.before[i].id = last.args.product_id
              THEN \A c \in DOMAIN last.before[i] :
                      products[i][c] =
                          IF c \in Present(last.args.patch)
                          THEN (IF c \in {"quantity", "price"}
                                THEN last.args.patch[c].value
                                ELSE strip(last.args.patch[c].value))
                          ELSE last.before[i][c]
              ELSE products[i] = last.before[i]

\* C9 happens: in a catalog of two rows a patch carrying only quantity changed the
\* quantity of one
C9_Witness ==
    /\ UpdateCalled
    /\ last.returned = "True"
    /\ Len(last.before) = 2
    /\ Present(last.args.patch) = {"quantity"}
    /\ RowOf(products, last.args.product_id).quantity
           # RowOf(last.before, last.args.product_id).quantity

\* the patch has a field and no negative number
ValidPatch(patch) ==
    /\ Present(patch) # {}
    /\ patch.quantity.present => patch.quantity.value >= 0
    /\ patch.price.present => patch.price.value >= 0

DeleteCalled == last.op = "delete_product"

RECURSIVE TotalOf(_)
TotalOf(rowset) ==
    IF rowset = {} THEN 0
    ELSE LET r == CHOOSE x \in rowset : TRUE
         IN  r.quantity * r.price + TotalOf(rowset \ {r})

TotalCalled == last.op = "calculate_total_value"

\* C12: totalValue() is the sum of quantity * price over the live rows, and 0 when
\* the catalog is empty, in particular after the last row has been deleted.
C12_TotalValue ==
    TotalCalled =>
        /\ last.raised = "none"
        /\ last.returned = TotalOf(Rows(products))
        /\ products = <<>> => last.returned = 0

\* C12 happens: the total was taken of the one row left after the delete of another,
\* a row whose quantity and price are both above 1
C12_Witness ==
    /\ TotalCalled
    /\ Len(issued) = 2
    /\ Len(products) = 1
    /\ products[1].quantity > 1
    /\ products[1].price > 1
    /\ last.returned = products[1].quantity * products[1].price

(***************************************************************************)
(* The claims about the read calls.                                        *)
(***************************************************************************)
\* whether text has term somewhere in it, letter case apart
contains(text, term) ==
    \E i \in 0..(Len(text) - Len(term)) :
        str_lower(SubSeq(text, i + 1, i + Len(term))) = str_lower(term)

\* the sequence has each of its rows once, and they are the rows of the set
ExactlyRows(returned, rowset) ==
    Rows(returned) = rowset /\ Len(returned) = Cardinality(rowset)

IdsOf(ps) == [i \in 1..Len(ps) |-> ps[i].id]

Reverse(q) == [i \in 1..Len(q) |-> q[Len(q) + 1 - i]]

SearchCalled == last.op = "search_products" /\ last.raised = "none"

\* C13: for any term (empty, with whitespace around it, with % or _ in it), search
\* returns exactly the rows whose code or name contains the term, letter case apart;
\* the empty term returns every row.
C13_SearchContainsTerm ==
    SearchCalled =>
        /\ ExactlyRows(last.returned,
                       {r \in Rows(products) :
                           contains(r.code, last.args.term) \/ contains(r.name, last.args.term)})
        /\ last.args.term = <<>> => ExactlyRows(last.returned, Rows(products))

LowStockCalled == last.op = "get_low_stock_items"

price_column == <<"p", "r", "i", "c", "e">>

\* getAll was called to sort by price, descending
PriceDescendingCalled ==
    /\ last.op = "get_all_products"
    /\ last.args.order_by = Some(price_column)
    /\ last.args.descending

\* the ids getAll gives for the catalog sorted by price, ascending
PriceAscendingIds == IdsOf(get_all_products_ordered(products, Some(price_column), FALSE).returned)

\* C15 (as claimed): for any catalog, rows of the same price included, the ids of
\* getAll sorted by price descending are the exact reverse of the ids of getAll
\* sorted by price ascending.
C15_DescendingIsReverse ==
    PriceDescendingCalled => IdsOf(last.returned) = Reverse(PriceAscendingIds)

PricesDiffer ==
    \A i, j \in 1..Len(products) : i # j => products[i].price # products[j].price

\* C15 (amended): for any catalog whose rows have pairwise different prices, the ids
\* of getAll sorted by price descending are the exact reverse of the ids of getAll
\* sorted by price ascending.
C15_DescendingIsReverseDistinctPrices ==
    (PriceDescendingCalled /\ PricesDiffer) =>
        /\ last.raised = "none"
        /\ IdsOf(last.returned) = Reverse(PriceAscendingIds)

\* C15 happens: three rows of three prices, not stored in the order of their prices,
\* were sorted by price descending
C15_Witness ==
    /\ PriceDescendingCalled
    /\ PricesDiffer
    /\ Len(products) = 3
    /\ IdsOf(last.returned) # IdsOf(products)
    /\ IdsOf(last.returned) # Reverse(IdsOf(products))

GetAllCalled == last.op = "get_all_products"

\* a <= b for two values of one column: numbers, or text in the column's collation
ValueLeq(a, b, column) == IF column \in NumericColumns THEN a <= b ELSE ~text_less(b, a)

\* the rows are a permutation of ps in the order of the column, in this direction
OrderedPermutation(returned, ps, column, descending) ==
    /\ ExactlyRows(returned, Rows(ps))
    /\ \A i, j \in 1..Len(returned) :
          i < j => IF descending
                   THEN ValueLeq(column_value(returned[j], column),
                                 column_value(returned[i], column), column)
                   ELSE ValueLeq(column_value(returned[i], column),
                                 column_value(returned[j], column), column)

\* C16 (as claimed): getAll fails with InvalidSortField for every sortField that is
\* present and not one of id, code, name, quantity, price, category, location; for
\* each of these seven it returns a permutation of the catalog ordered by that field
\* in the requested direction.
C16_SortFieldOneOfSeven ==
    (GetAllCalled /\ last.args.order_by.present) =>
        IF last.args.order_by.value \in ORDERABLE_COLUMNS
        THEN /\ last.raised = "none"
             /\ OrderedPermutation(last.returned, products, last.args.order_by.value,
                                   last.args.descending)
        ELSE last.raised = "InvalidSortField"

\* C16 (amended): getAll fails with InvalidSortField for every sortField that is
\* present, not empty and, in small letters, not one of id, code, name, quantity,
\* price, category, location; an empty sortField sorts nothing, as an absent one; for
\* each of the seven, in any letter case, getAll returns a permutation of the catalog
\* ordered by that field in the requested direction.
C16_SortFieldLowercased ==
    (GetAllCalled /\ last.args.order_by.present) =>
        IF last.args.order_by.value = <<>>
        THEN last.raised = "none" /\ last.returned = products
        ELSE IF str_lower(last.args.order_by.value) \in ORDERABLE_COLUMNS
        THEN /\ last.raised = "none"
             /\ OrderedPermutation(last.returned, products,
                                   str_lower(last.args.order_by.value),
                                   last.args.descending)
        ELSE last.raised = "InvalidSortField" /\ last.returned = <<>>

\* C16 happens: a catalog of three rows was sorted by the field PRICE, in capitals,
\* into another order than the stored one
C16_Witness ==
    /\ GetAllCalled
    /\ last.args.order_by = Some(<<"P", "R", "I", "C", "E">>)
    /\ last.raised = "none"
    /\ Len(last.returned) = 3
    /\ last.returned # products

\* C17: filterByCategory and filterByLocation return exactly the rows whose stored
\* category, location equals the trimmed argument: no row whose value has the
\* argument as a part, or differs from it in letter case, is returned.
C17_FilterEquality ==
    /\ (last.op = "filter_by_category" /\ last.raised = "none") =>
           ExactlyRows(last.returned,
                       {r \in Rows(products) : r.category = strip(last.args.category)})
    /\ (last.op = "filter_by_location" /\ last.raised = "none") =>
           ExactlyRows(last.returned,
                       {r \in Rows(products) : r.location = strip(last.args.location)})

\* C17 happens: a category given with whitespace around it matched a row and left
\* out a row whose category has it as a part and a row whose category is it in
\* capitals
C17_Witness ==
    /\ last.op = "filter_by_category"
    /\ last.raised = "none"
    /\ last.args.category # strip(last.args.category)
    /\ last.returned # <<>>
    /\ \E r \in Rows(products) \ Rows(last.returned) :
          contains(r.category, strip(last.args.category)) /\ Len(r.category) > 1
    /\ \E r \in Rows(products) \ Rows(last.returned) :
          str_lower(r.category) = str_lower(strip(last.args.category))

(***************************************************************************)
(* The claims about the terminal table.                                    *)
(***************************************************************************)
\* the selection is a row, and the row is in the viewport
SelectionInViewport ==
    /\ tui.top_row <= tui.selected_index
    /\ tui.selected_index < tui.top_row + table_height(tui)
    /\ 0 <= tui.selected_index
    /\ tui.selected_index < Len(tui.rows)

\* C18: after any sequence of navigation, pointer, reload, filter/sort, mutation and
\* resize events, on a terminal of any height, at every redraw with non-empty rows
\* topRow <= selectedIndex < topRow + viewportHeight and 0 <= selectedIndex < len(rows).
C18_SelectionInViewport == tui.rows # <<>> => SelectionInViewport

\* C19: whenever rows is empty at a redraw, selectedIndex = 0 and topRow = 0,
\* whatever made rows empty: a reload or filter that returns no rows, the deletion of
\* the last row, or a reload whose evaluation failed.
C19_EmptyRowsSelectZero ==
    tui.rows = <<>> => tui.selected_index = 0 /\ tui.top_row = 0

\* the rows are in the order of the column, in this direction
Ordered(returned, column, descending) ==
    \A i, j \in 1..Len(returned) :
        i < j => IF descending
                 THEN ValueLeq(column_value(returned[j], column),
                               column_value(returned[i], column), column)
                 ELSE ValueLeq(column_value(returned[i], column),
                               column_value(returned[j], column), column)

\* C20: for every kind of filter, LowStock(threshold) included, when a sort field is
\* set the rows of the table are ordered by that field in the requested direction.
C20_FilteredRowsOrdered ==
    tui.order_by.present => Ordered(tui.rows, tui.order_by.value, tui.descending)

(***************************************************************************)
(* The claims about the commands of the terminal table.                    *)
(***************************************************************************)
\* the rows, the selection and the viewport offset are as they were before the event
TableAsBefore ==
    /\ tui.rows = last.self.rows
    /\ tui.selected_index = last.self.selected_index
    /\ tui.top_row = last.self.top_row

\* the store is as it was before the event
StoreAsBefore == products = last.before

\* the status line shows this error of the store, with the [ERRORE] prefix
ErrorReported(exc) == tui.status_message.error /\ tui.status_message.exc = exc

\* an add dialog, with a code and a name typed, that the store refuses: the quantity
\* or the price is negative, or the code is the code of a product
AddRefused ==
    /\ last.op = "a"
    /\ strip(last.args.code) # <<>>
    /\ \/ last.args.quantity < 0
       \/ last.args.unit_price < 0
       \/ strip(last.args.code) \in CodesOf(last.before)

\* an edit dialog on the selected row that the store refuses: the quantity or the
\* price is negative, or every field was left empty
EditRefused ==
    /\ last.op = "e"
    /\ last.self.rows # <<>>
    /\ \/ last.args.quantity.present /\ last.args.quantity.value < 0
       \/ last.args.unit_price.present /\ last.args.unit_price.value < 0
       \/ ~last.args.quantity.present /\ ~last.args.unit_price.present

\* C21: when an add or edit command fails in the store (duplicate code, invalid
\* quantity or price, no fields provided), rows, selectedIndex and topRow are left as
\* they were before the command, the store too, and statusMessage is set to the error
\* and flagged as an error.  (delete_product raises none of these errors.)
C21_FailedMutationFrame ==
    /\ AddRefused =>
           /\ TableAsBefore
           /\ StoreAsBefore
           /\ ErrorReported(IF last.args.quantity < 0 THEN "InvalidQuantity"
                            ELSE IF last.args.unit_price < 0 THEN "InvalidPrice"
                            ELSE "DuplicateCode")
    /\ EditRefused =>
           /\ TableAsBefore
           /\ StoreAsBefore
           /\ ErrorReported(IF last.args.quantity.present /\ last.args.quantity.value < 0
                            THEN "InvalidQuantity"
                            ELSE IF last.args.unit_price.present THEN "InvalidPrice"
                            ELSE "NoFieldsProvided")

\* an add with the code of a product was refused while the second of two rows was
\* selected
C21_Witness ==
    /\ AddRefused
    /\ last.args.quantity >= 0 /\ last.args.unit_price >= 0
    /\ Len(last.self.rows) = 2
    /\ last.self.selected_index = 1
    /\ tui.status_message.exc = "DuplicateCode"

\* what the query of the object gives on these rows when, as for every other filter,
\* the rows of the low-stock filter are put in the order asked for
Evaluated(self, ps) ==
    LET r == data_loader(self, ps)
    IN  IF self.data_loader.kind = "get_low_stock_items" /\ r.raised = "none"
        THEN select(r.returned, _build_order_clause(self.order_by, self.descending))
        ELSE r

\* C22: at every redraw rows equals what the current queryDescriptor (filter, sort
\* field and direction) evaluates to on the store as it is then: no stale snapshot
\* survives a change of the descriptor or a mutation.
C22_RowsAreFreshEvaluation ==
    Evaluated(tui, products).raised = "none" => tui.rows = Evaluated(tui, products).returned

\* the answer typed at the confirmation prompt is yes
AnsweredYes(typed) == str_lower(strip(typed)) = <<"s">>

\* the event was a command that reloads the rows: the refresh key, the direction
\* toggle, a search with a term, a filter with a choice of the menu, a sort with no
\* field or with a field of the list, and an add, edit or delete the store carried out
Reloaded ==
    \/ last.op \in {"r", "O"}
    \/ last.op = "/" /\ strip(last.args.typed) # <<>>
    \/ last.op = "f" /\ strip(last.args.choice) \in {<<"0">>, <<"1">>, <<"2">>, <<"3">>}
    \/ last.op = "o" /\ strip(last.args.typed) \in ORDERABLE_COLUMNS \cup {<<>>}
    \/ last.op = "a" /\ strip(last.args.code) # <<>> /\ ~AddRefused
    \/ last.op = "e" /\ last.self.rows # <<>> /\ ~EditRefused
    \/ last.op = "d" /\ last.self.rows # <<>> /\ AnsweredYes(last.args.typed)

\* the evaluation of the query the object has after the event raises on the store
ReloadFailed == Reloaded /\ data_loader(tui, products).raised # "none"

\* C23: whenever a reload fails, at the next redraw rows is empty and statusMessage is
\* an error status flagged as an error, for every command that triggers the reload.
C23_FailedReloadReported ==
    ReloadFailed => tui.rows = <<>> /\ tui.status_message.error

\* the index i held in the range of the rows before the event
Saturated(i) == Max(0, Min(i, Len(last.self.rows) - 1))

WheelUp == last.op = "KEY_MOUSE" /\ last.args.state = "BUTTON4_PRESSED"

WheelDown == last.op = "KEY_MOUSE" /\ last.args.state = "BUTTON5_PRESSED"

\* the event was a navigation event: an arrow, a page key, home, end or the wheel
Navigated ==
    \/ last.op \in {"KEY_UP", "KEY_DOWN", "KEY_PPAGE", "KEY_NPAGE", "KEY_HOME", "KEY_END"}
    \/ WheelUp
    \/ WheelDown

\* the index the navigation event asks for, in a viewport of height h
Asked(h) ==
    CASE last.op = "KEY_UP" \/ WheelUp -> last.self.selected_index - 1
      [] last.op = "KEY_DOWN" \/ WheelDown -> last.self.selected_index + 1
      [] last.op = "KEY_PPAGE" -> last.self.selected_index - h
      [] last.op = "KEY_NPAGE" -> last.self.selected_index + h
      [] last.op = "KEY_HOME" -> 0
      [] last.op = "KEY_END" -> Len(last.self.rows) - 1

\* C24: with non-empty rows and viewport height h, up and wheel-up subtract 1 from
\* selectedIndex, down and wheel-down add 1, page-up subtracts h, page-down adds h,
\* home sets it to 0 and end to len(rows) - 1, each result saturated to
\* [0, len(rows) - 1]; no navigation event moves the selection outside that range.
C24_NavigationSaturated ==
    Navigated /\ last.self.rows # <<>> =>
        /\ tui.selected_index = Saturated(Asked(Max(0, last.self.height - ReservedRows)))
        /\ tui.rows = last.self.rows
        /\ 0 <= tui.selected_index /\ tui.selected_index < Len(tui.rows)

\* a page-down in a viewport of two rows, from the second of three rows or (with two
\* rows) from the first, stopped at the last row
C24_Witness ==
    /\ last.op = "KEY_NPAGE"
    /\ last.self.height - ReservedRows = 2
    /\ Len(last.self.rows) >= 2
    /\ last.self.selected_index + 2 > Len(last.self.rows) - 1
    /\ tui.selected_index = Len(tui.rows) - 1
    /\ tui.selected_index # last.self.selected_index

\* C25: when rows is empty, the show-details, edit and delete commands leave the
\* store, rows, selectedIndex and topRow unchanged and statusMessage reports that
\* nothing is selected.
C25_NothingSelected ==
    last.op \in {"KEY_ENTER", "e", "d"} /\ last.self.rows = <<>> =>
        /\ TableAsBefore
        /\ StoreAsBefore
        /\ tui.status_message.message = "Nessun prodotto selezionato."
        /\ tui.status_message.error

\* a delete answered with yes while a filter shows no row of a store that has rows
C25_Witness ==
    /\ last.op = "d"
    /\ AnsweredYes(last.args.typed)
    /\ last.self.rows = <<>>
    /\ products # <<>>
    /\ tui.status_message.message = "Nessun prodotto selezionato."

Clicked == last.op = "KEY_MOUSE" /\ last.args.state = "BUTTON1_CLICKED"

DoubleClicked == last.op = "KEY_MOUSE" /\ last.args.state = "BUTTON1_DOUBLE_CLICKED"

\* the line of the click is a visible line of the table and holds a row
OnARow ==
    /\ 0 <= last.args.y - 3
    /\ last.args.y - 3 < Max(0, last.self.height - 4)
    /\ last.self.top_row + (last.args.y - 3) < Len(last.self.rows)

\* the status line shows the details of a row
DetailsShown == tui.status_message.message = "ID: ... | Valore totale: ..."

\* C26: a pointer click at screen line y sets selectedIndex to topRow + (y - 3)
\* exactly when 0 <= y - 3 < viewportHeight and topRow + (y - 3) < len(rows); every
\* other click leaves selectedIndex and topRow unchanged; a double-click opens the
\* detail view only when that selection succeeded (and then it does).
C26_PointerClick ==
    Clicked \/ DoubleClicked =>
        /\ OnARow => tui.selected_index = last.self.top_row + (last.args.y - 3)
        /\ ~OnARow => /\ tui.selected_index = last.self.selected_index
                      /\ tui.top_row = last.self.top_row
        /\ tui.rows = last.self.rows
        /\ DoubleClicked /\ OnARow => DetailsShown
        /\ ~(DoubleClicked /\ OnARow) => tui.status_message = last.self.status_message

\* a double click on the second line of the table, which holds the second row, took
\* the selection from the first row and opened the details
C26_Witness ==
    /\ DoubleClicked
    /\ last.args.y = 4
    /\ OnARow
    /\ last.self.selected_index = 0
    /\ tui.selected_index = 1
    /\ DetailsShown

\* C29: a search or filter command (cancelled or rejected ones included) leaves
\* sortField and descending unchanged, and a sort command or a direction toggle (a
\* rejected sort field included) leaves the active filter kind and its parameter
\* unchanged.
C29_FilterSortIndependent ==
    /\ last.op \in {"/", "f"} =>
           /\ tui.order_by = last.self.order_by
           /\ tui.descending = last.self.descending
    /\ last.op \in {"o", "O"} => tui.data_loader = last.self.data_loader

\* a search took the place of another filter while the rows were sorted by a field,
\* downwards
C29_Witness ==
    /\ last.op = "/"
    /\ tui.data_loader.kind = "search_products"
    /\ last.self.data_loader.kind \notin {"get_all_products", "search_products"}
    /\ tui.order_by.present
    /\ tui.descending

\* the id of the row selected when the event came
SelectedId == last.self.rows[last.self.selected_index + 1].id

\* the ids of the products the event changed, removed or added
Touched ==
    {r.id : r \in (Rows(last.before) \ Rows(products)) \cup
                  (Rows(products) \ Rows(last.before))}

\* C30: an edit or delete command mutates at most one Product, the one whose id is
\* rows[selectedIndex].id when the command was issued (the delete removes it, the
\* edit writes the typed quantity to it); a delete whose confirmation is answered
\* with anything other than yes mutates nothing; every other Product is unchanged.
C30_MutatesSelectedOnly ==
    /\ last.op \in {"e", "d"} =>
           Touched \subseteq (IF last.self.rows = <<>> THEN {} ELSE {SelectedId})
    /\ last.op = "d" /\ ~AnsweredYes(last.args.typed) => StoreAsBefore
    /\ last.op = "d" /\ AnsweredYes(last.args.typed) /\ last.self.rows # <<>> =>
           \A r \in Rows(products) : r.id # SelectedId
    /\ last.op = "e" /\ last.self.rows # <<>> /\ ~EditRefused =>
           RowOf(products, SelectedId).quantity = last.args.quantity.value

\* the second row of a table sorted downwards, which is the first row of the store,
\* was deleted and the other product is still there
C30_Witness ==
    /\ last.op = "d"
    /\ AnsweredYes(last.args.typed)
    /\ Len(last.before) = 2
    /\ last.self.selected_index = 1
    /\ SelectedId = last.before[1].id
    /\ products = <<last.before[2]>>

(***************************************************************************)
(* The claims about the numeric prompts.                                   *)
(***************************************************************************)
\* the texts of digits, the empty one included
DigitTexts == UNION {[1..n -> {"0", "1"}] : n \in 0..MaxTyped}

Signs == {<<>>, <<"-">>}

RECURSIVE Pow10(_)
Pow10(n) == IF n = 0 THEN 1 ELSE 10 * Pow10(n - 1)

\* the number written by the digits d: every digit at its place value
RECURSIVE PlaceValues(_, _)
PlaceValues(d, i) ==
    IF i > Len(d) THEN 0
    ELSE (IF d[i] = "1" THEN Pow10(Len(d) - i) ELSE 0) + PlaceValues(d, i + 1)

Signed(sign, n) == IF sign = <<>> THEN n ELSE 0 - n

\* the whole numbers as they are written, with or without a sign, each with the
\* number it writes
IntegerReadings ==
    {[text |-> q[1] \o q[2], number |-> Signed(q[1], PlaceValues(q[2], 1))] :
        q \in Signs \X (DigitTexts \ {<<>>})}

\* the decimal numbers as they are written (digits, a point or a comma in them, or
\* both), each with the number it writes as units / 10^scale
DecimalReadings ==
    {[text |-> q[1] \o q[2] \o <<q[4]>> \o q[3],
      units |-> Signed(q[1], PlaceValues(q[2] \o q[3], 1)), scale |-> Len(q[3])] :
        q \in {p \in Signs \X DigitTexts \X DigitTexts \X {".", ","} :
                  p[2] # <<>> \/ p[3] # <<>>}}
    \cup
    {[text |-> q[1] \o q[2], units |-> Signed(q[1], PlaceValues(q[2], 1)), scale |-> 0] :
        q \in Signs \X (DigitTexts \ {<<>>})}

\* the line reads as the number x, of the kind the prompt asks for
ReadsAs(text, x) ==
    IF last.op = "_prompt_int"
    THEN \E r \in IntegerReadings : r.text = text /\ r.number = x
    ELSE \E r \in DecimalReadings :
             r.text = text /\ x.units * Pow10(r.scale) = r.units * Pow10(x.scale)

Parseable(text) ==
    IF last.op = "_prompt_int" THEN \E r \in IntegerReadings : r.text = text
    ELSE \E r \in DecimalReadings : r.text = text

\* a numeric prompt has taken a line, and has returned or not
InPrompt == last.op \in {"_prompt_int", "_prompt_float"} /\ last.pc # "_prompt_input"

Returned == last.pc = "return"

\* C27: promptInt and promptFloat return only a successfully parsed number, or the
\* empty sentinel when allowEmpty is set and the response is empty; after every
\* unparseable response the call has not returned (the prompt is asked again) and a
\* validation error status is set; with allowEmpty unset an empty response is never
\* accepted; a response that is a number is returned.
C27_NumericPrompt ==
    InPrompt =>
        /\ Returned /\ last.returned.present => ReadsAs(last.value, last.returned.value)
        /\ Returned /\ ~last.returned.present => last.allow_empty /\ last.value = <<>>
        /\ ~Parseable(last.value) /\ ~(last.allow_empty /\ last.value = <<>>) =>
               /\ ~Returned
               /\ tui.status_message.error
               /\ tui.status_message.message =
                      (IF last.op = "_prompt_int" THEN "Inserisci un numero intero valido."
                       ELSE "Inserisci un numero valido.")
        /\ ~last.allow_empty /\ last.value = <<>> => ~Returned
        /\ Parseable(last.value) => Returned

\* a price typed with a comma was returned after a first line that was no number
C27_Witness ==
    /\ last.op = "_prompt_float"
    /\ last.asked = 2
    /\ Returned
    /\ last.value = <<"1", ",", "1">>
    /\ last.returned = Some([units |-> 11, scale |-> 1])
    /\ tui.status_message.error

(***************************************************************************)
(* The claims about the menu.                                              *)
(***************************************************************************)
\* the errors the store raises on what it was given
ValidationErrors ==
    {"DuplicateCode", "InvalidQuantity", "InvalidPrice", "InvalidSortField",
     "NoFieldsProvided", "InvalidThreshold"}

\* the handler printed a validation error of the store, and the loop goes on with the
\* table as it was
ValidationErrorHandled ==
    last.exc \in ValidationErrors =>
        /\ last.pc = "handler"
        /\ last.raised = "none"
        /\ products = last.before

\* main was left
LoopEnded == last.pc \in {"break", "raise"}

\* C28: in the menu, no validation error raised by the store (duplicate code, invalid
\* quantity or price, invalid sort field, no fields provided, invalid threshold) ends
\* the loop: after any command with any input the loop returns to the menu with the
\* catalog consistent, and only choice 0 ends the loop.
C28_MenuLoopSurvives ==
    last.op = "main" =>
        /\ ValidationErrorHandled
        /\ last.raised \notin ValidationErrors
        /\ LoopEnded => last.pc = "break" /\ last.choice = <<"0">>

====
